---------------------------- MODULE Spec2Model ----------------------------
(***************************************************************************)
(* A model of spyysalo/pdftools: the Freki document model (loadfreki.py),  *)
(* the longest-increasing-subsequence engine (common.py), page-number      *)
(* sequence recovery (filterpagenumbers.py) and block revision             *)
(* (reviseblocks.py).                                                      *)
(*                                                                         *)
(* Conventions.  A text file is the sequence of its lines ("records").  A  *)
(* record is a block preamble, a block content line, a blank line or a     *)
(* line matching neither regular expression.  Python exceptions are the    *)
(* field exc of a result record.  Object identity of a Line is the number  *)
(* of the input line it was parsed from.                                   *)
(***************************************************************************)
EXTENDS Integers, Sequences, FiniteSets, TLC

Min(a, b) == IF a <= b THEN a ELSE b
Max(a, b) == IF a >= b THEN a ELSE b

Range(s) == {s[i] : i \in 1..Len(s)}

RECURSIVE SeqsUpTo(_, _)
SeqsUpTo(S, n) ==
    IF n = 0 THEN {<<>>}
    ELSE LET shorter == SeqsUpTo(S, n - 1)
         IN  shorter \cup {Append(s, x) : s \in {t \in shorter : Len(t) = n - 1}, x \in S}

RECURSIVE SetMin(_)
SetMin(S) == LET x == CHOOSE y \in S : TRUE
             IN  IF S = {x} THEN x ELSE Min(x, SetMin(S \ {x}))

RECURSIVE SetMax(_)
SetMax(S) == LET x == CHOOSE y \in S : TRUE
             IN  IF S = {x} THEN x ELSE Max(x, SetMax(S \ {x}))

(***************************************************************************)
(* Geometry: loadfreki.BBox.                                               *)
(***************************************************************************)
BBox(llx, lly, urx, ury) == [llx |-> llx, lly |-> lly, urx |-> urx, ury |-> ury]

is_above(self, other) == self.lly >= other.ury

expand_to_contain(self, other) ==
    BBox(Min(self.llx, other.llx), Min(self.lly, other.lly),
         Max(self.urx, other.urx), Max(self.ury, other.ury))

\* BBox.to_freki: the four floats, comma separated.  A bbox text is the
\* sequence of its four coordinates; <<>> is the text None,None,None,None.
BBox_to_freki(self) == <<self.llx, self.lly, self.urx, self.ury>>

\* parse_bbox: EmptyBBox for the all-None text, ValueError for any other
\* text that is not four floats.
parse_bbox(bbox) ==
    IF bbox = <<>> THEN [exc |-> "EmptyBBox"]
    ELSE IF Len(bbox) # 4 THEN [exc |-> "ValueError"]
    ELSE [exc |-> "none", val |-> BBox(bbox[1], bbox[2], bbox[3], bbox[4])]

\* The union (component-wise min/max) of the bboxes of a non-empty line list.
LinesUnion(lines) ==
    BBox(SetMin({l.bbox.llx : l \in Range(lines)}),
         SetMin({l.bbox.lly : l \in Range(lines)}),
         SetMax({l.bbox.urx : l \in Range(lines)}),
         SetMax({l.bbox.ury : l \in Range(lines)}))

(***************************************************************************)
(* Records of the persisted format.                                        *)
(*   preamble: doc_id page block_id bbox label start_line end_line         *)
(*   content : line_num fonts bbox [iscore] [blanks] ':' text              *)
(* The iscore text is the sequence of its decimal digits after "0."        *)
(* (<<>> when the field is absent); blanks is the number of spaces before  *)
(* the colon.                                                              *)
(***************************************************************************)
Preamble(doc_id, page, block_id, bbox, label, start_line, end_line) ==
    [t |-> "preamble", doc_id |-> doc_id, page |-> page, block_id |-> block_id,
     bbox |-> bbox, label |-> label, start_line |-> start_line,
     end_line |-> end_line]

Content(line_num, fonts, bbox, iscore, blanks, text) ==
    [t |-> "line", line_num |-> line_num, fonts |-> fonts, bbox |-> bbox,
     iscore |-> iscore, blanks |-> blanks, text |-> text]

Blank == [t |-> "blank"]

Other == [t |-> "other"]

None == -1

\* float(iscore): the value in hundredths.
ParseIscore(digits) ==
    IF digits = <<>> THEN None
    ELSE IF Len(digits) = 1 THEN 10 * digits[1]
    ELSE 10 * digits[1] + digits[2]

\* A format of one decimal digit, f'{iscore:.1f}'.
FormatIscore_1f(v) == <<v \div 10>>

\* f'{iscore:.2f}': two decimal digits.
FormatIscore(v) == <<v \div 10, v % 10>>

(***************************************************************************)
(* Line.from_freki, Block.from_freki, Block.add_line.  A Line object is    *)
(* identified by id and a Block object by obj: the number of the input     *)
(* line it was made from.  The block attribute of a Line is the obj of the *)
(* Block it refers to, <<>> for the None the constructor leaves.           *)
(***************************************************************************)
Line_from_freki(rec, ln) ==
    LET bbox == parse_bbox(rec.bbox)
    IN  IF bbox.exc # "none" THEN [exc |-> bbox.exc]
        ELSE [exc |-> "none",
              val |-> [id |-> ln, line_num |-> rec.line_num, fonts |-> rec.fonts,
                       bbox |-> bbox.val, iscore |-> ParseIscore(rec.iscore),
                       blanks |-> rec.blanks, text |-> rec.text,
                       block |-> <<>>]]

Block_from_freki(rec, ln) ==
    LET bbox == parse_bbox(rec.bbox)
    IN  IF bbox.exc # "none" THEN [exc |-> bbox.exc]
        ELSE [exc |-> "none",
              val |-> [obj |-> <<ln>>, doc_id |-> rec.doc_id,
                       page_index |-> rec.page, id |-> rec.block_id, bbox |-> bbox.val, label |-> rec.label,
                       start_line |-> rec.start_line, end_line |-> rec.end_line,
                       lines |-> <<>>]]

\* The line appended without line.block = self.
add_line_unowned(self, line) ==
    [self EXCEPT !.bbox = expand_to_contain(self.bbox, line.bbox),
                 !.lines = Append(self.lines, line)]

add_line(self, line) ==
    [self EXCEPT !.bbox = expand_to_contain(self.bbox, line.bbox),
                 !.lines = Append(self.lines, [line EXCEPT !.block = self.obj])]

RECURSIVE add_lines(_, _)
add_lines(self, lines) ==
    IF lines = <<>> THEN self
    ELSE add_lines(add_line(self, Head(lines)), Tail(lines))

(***************************************************************************)
(* make_pages and load_freki_document.                                     *)
(***************************************************************************)
RECURSIVE make_pages_from(_, _)
make_pages_from(blocks, pages) ==
    IF blocks = <<>> THEN pages
    ELSE LET block == Head(blocks)
             n == Len(pages)
         IN  IF n = 0 \/ block.page_index # pages[n].page_index
             THEN make_pages_from(Tail(blocks),
                      Append(pages, [page_index |-> block.page_index,
                                     blocks |-> <<block>>]))
             ELSE make_pages_from(Tail(blocks),
                      [pages EXCEPT ![n].blocks = Append(@, block)])

make_pages(blocks) == make_pages_from(blocks, <<>>)

\* The loop of load_freki_document from input line ln on.  current_block is
\* the index in blocks of the open block, 0 for None.
RECURSIVE load_loop(_, _, _, _)
load_loop(text, ln, blocks, current_block) ==
    IF ln > Len(text)
    THEN IF blocks = <<>> THEN [exc |-> "ValueError"]
         ELSE IF Cardinality({b.doc_id : b \in Range(blocks)}) > 1
              THEN [exc |-> "ValueError"]
         ELSE [exc |-> "none",
               val |-> [id |-> blocks[1].doc_id, pages |-> make_pages(blocks)]]
    ELSE LET rec == text[ln] IN
         CASE rec.t = "preamble" ->
                LET b == Block_from_freki(rec, ln)
                IN  IF b.exc = "EmptyBBox"
                    THEN load_loop(text, ln + 1, blocks, current_block)
                    ELSE IF b.exc # "none" THEN [exc |-> b.exc]
                    ELSE load_loop(text, ln + 1, Append(blocks, b.val),
                                   Len(blocks) + 1)
           [] rec.t = "line" ->
                IF current_block = 0 THEN [exc |-> "AttributeError"]
                ELSE LET l == Line_from_freki(rec, ln)
                     IN  IF l.exc # "none" THEN [exc |-> l.exc]
                         ELSE load_loop(text, ln + 1,
                                  [blocks EXCEPT ![current_block] = add_line(@, l.val)],
                                  current_block)
           [] rec.t = "blank" -> load_loop(text, ln + 1, blocks, 0)
           [] OTHER -> [exc |-> "ValueError"]

load_freki_document(text) == load_loop(text, 1, <<>>, 0)

(***************************************************************************)
(* Serialization: Line.to_freki, Block.to_freki, Page.to_freki,            *)
(* Document.to_freki.  The result is the sequence of lines that            *)
(* print(document.to_freki()) writes.                                      *)
(***************************************************************************)
Line_to_freki(self, block) ==
    IF Len(block.lines) = 1
    THEN Content(self.line_num, self.fonts, BBox_to_freki(self.bbox), <<>>, 0,
                 self.text)
    ELSE IF self.iscore # None
    THEN Content(self.line_num, self.fonts, BBox_to_freki(self.bbox),
                 FormatIscore(self.iscore), self.blanks, self.text)
    ELSE Content(self.line_num, self.fonts, BBox_to_freki(self.bbox), <<>>,
                 self.blanks, self.text)

Block_to_freki(self) ==
    <<Preamble(self.doc_id, self.page_index, self.id, BBox_to_freki(self.bbox),
               self.label, self.start_line, self.end_line)>>
    \o [i \in 1..Len(self.lines) |-> Line_to_freki(self.lines[i], self)]
    \o <<Blank>>

RECURSIVE Blocks_to_freki(_)
Blocks_to_freki(blocks) ==
    IF blocks = <<>> THEN <<>>
    ELSE Block_to_freki(Head(blocks)) \o Blocks_to_freki(Tail(blocks))

Page_to_freki(self) == Blocks_to_freki(self.blocks)

RECURSIVE Pages_to_freki(_)
Pages_to_freki(pages) ==
    IF pages = <<>> THEN <<>>
    ELSE Page_to_freki(Head(pages)) \o Pages_to_freki(Tail(pages))

Document_to_freki(self) == Pages_to_freki(self.pages)

(***************************************************************************)
(* Mutation: Block.remove_lines, Page.remove_lines, Document.remove_lines. *)
(* lines is a list of Line identities.  Each returns the new object and    *)
(* the count removed.                                                      *)
(***************************************************************************)
IndexOf(lines, id) ==
    IF \E i \in 1..Len(lines) : lines[i].id = id
    THEN CHOOSE i \in 1..Len(lines) :
             lines[i].id = id /\ \A j \in 1..(i - 1) : lines[j].id # id
    ELSE 0

\* list.remove(l): drops the first occurrence.
ListRemove(lines, i) ==
    [j \in 1..(Len(lines) - 1) |-> IF j < i THEN lines[j] ELSE lines[j + 1]]

RECURSIVE remove_each(_, _, _)
remove_each(block_lines, lines, removed) ==
    IF lines = <<>> THEN [lines |-> block_lines, removed |-> removed]
    ELSE LET i == IndexOf(block_lines, Head(lines))
         IN  IF i = 0 THEN remove_each(block_lines, Tail(lines), removed)
             ELSE remove_each(ListRemove(block_lines, i), Tail(lines), removed + 1)

\* The bbox left as it was, whatever was removed.
RecomputeBBox_stale(self, removed) == self.bbox

\* "if removed:" and the four assignments that rework the bounding box.
RecomputeBBox(self, removed) ==
    IF removed > 0 THEN LinesUnion(self.lines) ELSE self.bbox

Block_remove_lines(self, lines) ==
    LET r == remove_each(self.lines, lines, 0)
        emptied == [self EXCEPT !.lines = r.lines]
    IN  IF r.lines = <<>> THEN [obj |-> emptied, removed |-> r.removed]
        ELSE [obj |-> [emptied EXCEPT !.bbox = RecomputeBBox(emptied, r.removed)],
              removed |-> r.removed]

RECURSIVE SumSeq(_)
SumSeq(s) == IF s = <<>> THEN 0 ELSE Head(s) + SumSeq(Tail(s))

\* The emptied blocks eliminated from the page.
Page_remove_lines_eliminating(self, lines) ==
    LET rs == [i \in 1..Len(self.blocks) |-> Block_remove_lines(self.blocks[i], lines)]
    IN  [obj |-> [self EXCEPT !.blocks =
                     SelectSeq([i \in 1..Len(rs) |-> rs[i].obj],
                               LAMBDA b : b.lines # <<>>)],
         removed |-> SumSeq([i \in 1..Len(rs) |-> rs[i].removed])]

Page_remove_lines(self, lines) ==
    LET rs == [i \in 1..Len(self.blocks) |-> Block_remove_lines(self.blocks[i], lines)]
    IN  [obj |-> [self EXCEPT !.blocks = [i \in 1..Len(rs) |-> rs[i].obj]],
         removed |-> SumSeq([i \in 1..Len(rs) |-> rs[i].removed])]

\* The count requested returned in place of the count removed.
Document_remove_lines_requested(self, lines) ==
    LET rs == [i \in 1..Len(self.pages) |-> Page_remove_lines(self.pages[i], lines)]
    IN  [obj |-> [self EXCEPT !.pages = [i \in 1..Len(rs) |-> rs[i].obj]],
         removed |-> Len(lines)]

Document_remove_lines(self, lines) ==
    LET rs == [i \in 1..Len(self.pages) |-> Page_remove_lines(self.pages[i], lines)]
    IN  [obj |-> [self EXCEPT !.pages = [i \in 1..Len(rs) |-> rs[i].obj]],
         removed |-> SumSeq([i \in 1..Len(rs) |-> rs[i].removed])]


(***************************************************************************)
(* common.longest_increasing_subsequence.  Indices are those of the Python *)
(* code (from 0); seq[k + 1] is the code's seq[k].  seq[a] < seq[b] is the  *)
(* __lt__ of the candidates' class.                                        *)
(***************************************************************************)
\* An ordering by page_index alone.
PageNumberCandidate_lt_page(self, other) == self.page_index < other.page_index

PageNumberCandidate_lt(self, other) ==
    self.page_index < other.page_index /\ self.number < other.number

TocLineCandidate_lt(self, other) ==
    self.page_index <= other.page_index /\ self.number <= other.number

Lt(a, b) ==
    IF a.cls = "TocLineCandidate" THEN TocLineCandidate_lt(a, b)
    ELSE PageNumberCandidate_lt(a, b)

\* The binary search: the while loop over lo and hi.
RECURSIVE lis_search(_, _, _, _, _)
lis_search(seq, min_idx, i, lo, hi) ==
    IF lo < hi
    THEN LET mid == lo + ((hi - lo) \div 2)
         IN  IF Lt(seq[min_idx[mid] + 1], seq[i + 1])
             THEN lis_search(seq, min_idx, i, mid + 1, hi)
             ELSE lis_search(seq, min_idx, i, lo, mid)
    ELSE lo

\* The for loop over i; st holds min_idx, pred and max_len.
RECURSIVE lis_loop(_, _, _)
lis_loop(seq, i, st) ==
    IF i >= Len(seq) THEN st
    ELSE LET new_len == lis_search(seq, st.min_idx, i, 1, st.max_len + 1)
             pred == [st.pred EXCEPT ![i] = st.min_idx[new_len - 1]]
             min_idx == [st.min_idx EXCEPT ![new_len] = i]
         IN  IF new_len > st.max_len
             THEN lis_loop(seq, i + 1, [min_idx |-> min_idx, pred |-> pred,
                                        max_len |-> new_len])
             ELSE lis_loop(seq, i + 1, [min_idx |-> min_idx, pred |-> pred,
                                        max_len |-> st.max_len])

\* A reconstruction that steps to the element before, not to pred[k].
RECURSIVE lis_reconstruct_adjacent(_, _, _, _)
lis_reconstruct_adjacent(seq, pred, k, n) ==
    IF n = 0 THEN <<>>
    ELSE Append(lis_reconstruct_adjacent(seq, pred, Max(k - 1, 0), n - 1), seq[k + 1])

\* The reconstruction: lis[n - 1] = seq[k], then k = pred[k].
RECURSIVE lis_reconstruct(_, _, _, _)
lis_reconstruct(seq, pred, k, n) ==
    IF n = 0 THEN <<>>
    ELSE Append(lis_reconstruct(seq, pred, pred[k], n - 1), seq[k + 1])

longest_increasing_subsequence(seq) ==
    LET r == lis_loop(seq, 0, [min_idx |-> [j \in 0..Len(seq) |-> 0],
                               pred |-> [j \in 0..(Len(seq) - 1) |-> 0],
                               max_len |-> 0])
    IN  lis_reconstruct(seq, r.pred, r.min_idx[r.max_len], r.max_len)

(***************************************************************************)
(* filterpagenumbers: grouping, candidate_sequences and                    *)
(* find_page_number_lines.  A candidate is a record of its class, its      *)
(* page_index, number, group key and Line identity.                        *)
(***************************************************************************)
PageNumberCandidate(page_index, number, key, line) ==
    [cls |-> "PageNumberCandidate", page_index |-> page_index,
     number |-> number, key |-> key, line |-> line]

TocLineCandidate(page_index, number, line) ==
    [cls |-> "TocLineCandidate", page_index |-> page_index, number |-> number,
     line |-> line]

Pair(c) == <<c.page_index, c.number>>

\* The keys of candidate_groups in insertion order.
RECURSIVE group_keys(_, _)
group_keys(candidates, keys) ==
    IF candidates = <<>> THEN keys
    ELSE IF Head(candidates).key \in Range(keys)
         THEN group_keys(Tail(candidates), keys)
         ELSE group_keys(Tail(candidates), Append(keys, Head(candidates).key))

candidate_group(candidates, k) == SelectSeq(candidates, LAMBDA c : c.key = k)

\* max(group_lis.items(), key=len): the first key, in insertion order, whose
\* LIS is longest.
RECURSIVE max_lis_key(_, _, _)
max_lis_key(candidates, keys, best) ==
    IF keys = <<>> THEN best
    ELSE LET here == Len(longest_increasing_subsequence(
                             candidate_group(candidates, Head(keys))))
             sofar == Len(longest_increasing_subsequence(
                             candidate_group(candidates, best)))
         IN  max_lis_key(candidates, Tail(keys),
                         IF here > sofar THEN Head(keys) ELSE best)

\* The candidates of the pair, the last of the document first.
candidates_by_reversed(candidates, pair) ==
    LET cs == SelectSeq(candidates, LAMBDA c : Pair(c) = pair)
    IN  [i \in 1..Len(cs) |-> cs[Len(cs) + 1 - i]]

\* candidates_by_index_and_number[pair]
candidates_by(candidates, pair) == SelectSeq(candidates, LAMBDA c : Pair(c) = pair)

RECURSIVE subsequence_count(_, _)
subsequence_count(seq, candidates) ==
    IF seq = <<>> THEN 1
    ELSE Len(candidates_by(candidates, Head(seq)))
             * subsequence_count(Tail(seq), candidates)

RECURSIVE Flatten(_)
Flatten(ss) == IF ss = <<>> THEN <<>> ELSE Head(ss) \o Flatten(Tail(ss))

\* The generator _subsequences, as the list of what it yields.
RECURSIVE subsequences(_, _)
subsequences(seq, candidates) ==
    IF seq = <<>> THEN << <<>> >>
    ELSE LET firsts == candidates_by(candidates, Head(seq))
             rest == subsequences(Tail(seq), candidates)
         IN  Flatten([i \in 1..Len(firsts) |->
                        [j \in 1..Len(rest) |-> <<firsts[i]>> \o rest[j]]])

MaxSequences == 1000000
WarnSequences == 1000

\* The limit of the warning taken for the limit of the error.
TooMany_warn(count) == count > WarnSequences

TooMany(count) == count > MaxSequences

candidate_sequences(sequence, candidates) ==
    LET count == subsequence_count(sequence, candidates)
    IN  IF TooMany(count)
        THEN [logged |-> "error", count |-> count, sequences |-> <<>>]
        ELSE [logged |-> IF count > WarnSequences THEN "warning" ELSE "none",
              count |-> count,
              sequences |-> subsequences(sequence, candidates)]

\* find_page_number_lines, with the intermediate values it computes.
find_page_number_lines(candidates) ==
    IF candidates = <<>>
    THEN [lis |-> <<>>, logged |-> "none", count |-> 0, sequences |-> <<>>,
          lines |-> <<>>]
    ELSE LET keys == group_keys(candidates, <<>>)
             lis_key == max_lis_key(candidates, Tail(keys), Head(keys))
             group == candidate_group(candidates, lis_key)
             lis == longest_increasing_subsequence(group)
             lis_sequence == [i \in 1..Len(lis) |-> Pair(lis[i])]
             r == candidate_sequences(lis_sequence, group)
         IN  [lis |-> lis, logged |-> r.logged, count |-> r.count,
              sequences |-> r.sequences,
              lines |-> IF r.sequences = <<>> THEN <<>>
                        ELSE [i \in 1..Len(r.sequences[1]) |->
                                 r.sequences[1][i].line]]

(***************************************************************************)
(* reviseblocks.  Coordinates are points; a font size is in hundredths of  *)
(* a point and a rounded font size (roundto=0.1) in tenths; a relative gap *)
(* threshold is in hundredths, a rounded relative gap in tenths.           *)
(***************************************************************************)
DEFAULT_JOIN_GAP == 80
DEFAULT_SPLIT_GAP == 100
MinGapCount == 10

\* Python's round(n/d) for n >= 0, d > 0: to the nearest integer, ties to even.
RoundHalfEven(n, d) ==
    LET q == n \div d
        r == n % d
    IN  IF 2 * r < d THEN q
        ELSE IF 2 * r > d THEN q + 1
        ELSE IF q % 2 = 0 THEN q ELSE q + 1

Line_max_font_size(self) ==
    RoundHalfEven(SetMax({f.size : f \in Range(self.fonts)}), 10)

Line_min_font_size(self) ==
    RoundHalfEven(SetMin({f.size : f \in Range(self.fonts)}), 10)

BlockFontSizes(self) ==
    UNION {{f.size : f \in Range(l.fonts)} : l \in Range(self.lines)}

Block_max_font_size(self) == RoundHalfEven(SetMax(BlockFontSizes(self)), 10)

Block_min_font_size(self) == RoundHalfEven(SetMin(BlockFontSizes(self)), 10)

Block_min_llx(self) ==
    RoundHalfEven(SetMin({l.bbox.llx : l \in Range(self.lines)}), 1)

Block_max_llx(self) ==
    RoundHalfEven(SetMax({l.bbox.llx : l \in Range(self.lines)}), 1)

\* BBox.vertical_distance; the value "ValueError" stands for the raise.
vertical_distance(self, other) ==
    IF is_above(self, other) THEN self.lly - other.ury
    ELSE IF is_above(other, self) THEN other.lly - self.ury
    ELSE "ValueError"

\* distance >= font_size * gap, with font_size in tenths and gap in hundredths.
AtLeast(distance, font_size, gap) == distance * 1000 >= font_size * gap

AtMost(distance, font_size, gap) == distance * 1000 <= font_size * gap

can_split(line1, line2, min_split_relative_gap) ==
    IF ~(is_above(line1.bbox, line2.bbox) \/ is_above(line2.bbox, line1.bbox))
    THEN FALSE
    ELSE LET font_size == Min(Line_max_font_size(line1), Line_max_font_size(line2))
         IN  AtLeast(vertical_distance(line1.bbox, line2.bbox), font_size,
                     min_split_relative_gap)

\* The scan of a block that looks at its first two lines only.
FirstSplit_head(lines, gap) ==
    IF Len(lines) > 1 /\ can_split(lines[1], lines[2], gap) THEN 1 ELSE 0

\* The first i (from 1) with can_split(lines[i], lines[i + 1]), 0 if none.
FirstSplit(lines, gap) ==
    LET S == {i \in 1..(Len(lines) - 1) : can_split(lines[i], lines[i + 1], gap)}
    IN  IF S = {} THEN 0 ELSE SetMin(S)

\* The new block given the end_line the block had.
SplitBlock_end_line(block, i) ==
    LET prev == block.lines[i]
        line == block.lines[i + 1]
        split_lines == SubSeq(block.lines, i + 1, Len(block.lines))
        new_block == [obj |-> Append(block.obj, line.id),
                      doc_id |-> block.doc_id, page_index |-> block.page_index,
                      id |-> Append(block.id, ".2"), bbox |-> line.bbox,
                      label |-> Append(block.label, "b"),
                      start_line |-> line.line_num,
                      end_line |-> block.end_line,
                      lines |-> <<>>]
        renamed == [block EXCEPT !.id = Append(block.id, ".1"),
                                 !.label = Append(block.label, "t"),
                                 !.end_line = prev.line_num]
        ids == [k \in 1..Len(split_lines) |-> split_lines[k].id]
    IN  <<Block_remove_lines(renamed, ids).obj, add_lines(new_block, split_lines)>>

\* The body of "if can_split(prev, line, args)": the two blocks that replace
\* block, split before lines[i + 1].  The new Block is an object that no
\* Block of the document is: block has not been split before this line
\* into a Block that is still in the page.
SplitBlock(block, i) ==
    LET prev == block.lines[i]
        line == block.lines[i + 1]
        split_lines == SubSeq(block.lines, i + 1, Len(block.lines))
        new_block == [obj |-> Append(block.obj, line.id),
                      doc_id |-> block.doc_id, page_index |-> block.page_index,
                      id |-> Append(block.id, ".2"), bbox |-> line.bbox,
                      label |-> Append(block.label, "b"),
                      start_line |-> line.line_num,
                      end_line |-> block.lines[Len(block.lines)].line_num,
                      lines |-> <<>>]
        renamed == [block EXCEPT !.id = Append(block.id, ".1"),
                                 !.label = Append(block.label, "t"),
                                 !.end_line = prev.line_num]
        ids == [k \in 1..Len(split_lines) |-> split_lines[k].id]
    IN  <<Block_remove_lines(renamed, ids).obj, add_lines(new_block, split_lines)>>

\* One pass of "for block_idx, block in enumerate(page.blocks)" from
\* block_idx on.  The list is the one being iterated: a block inserted at
\* block_idx + 1 is visited next, in the same pass.
RECURSIVE split_pass(_, _, _, _)
split_pass(blocks, block_idx, gap, revised) ==
    IF block_idx > Len(blocks) THEN [blocks |-> blocks, revised |-> revised]
    ELSE LET block == blocks[block_idx]
             i == FirstSplit(block.lines, gap)
         IN  IF i = 0 THEN split_pass(blocks, block_idx + 1, gap, revised)
             ELSE LET two == SplitBlock(block, i)
                  IN  split_pass(SubSeq(blocks, 1, block_idx - 1) \o two
                                    \o SubSeq(blocks, block_idx + 1, Len(blocks)),
                                 block_idx + 1, gap, TRUE)

CountPass(split_count, revised) == IF revised THEN split_count + 1 ELSE split_count

\* The while loop of split_page_blocks.
RECURSIVE split_loop(_, _, _)
split_loop(blocks, gap, split_count) ==
    LET r == split_pass(blocks, 1, gap, FALSE)
    IN  IF r.revised THEN split_loop(r.blocks, gap, CountPass(split_count, TRUE))
        ELSE [blocks |-> blocks, count |-> split_count]

split_page_blocks(page, min_split_relative_gap) ==
    LET r == split_loop(page.blocks, min_split_relative_gap, 0)
    IN  [obj |-> [page EXCEPT !.blocks = r.blocks], count |-> r.count]

compatible_blocks(block1, block2) ==
    IF Len(block1.lines) = 0 \/ Len(block2.lines) = 0 THEN FALSE
    ELSE IF \/ Block_min_font_size(block1) # Block_max_font_size(block1)
            \/ Block_min_font_size(block2) # Block_max_font_size(block2)
            \/ Block_min_font_size(block1) # Block_min_font_size(block2)
         THEN FALSE
    ELSE IF \/ Block_min_llx(block1) # Block_max_llx(block1)
            \/ Block_min_llx(block2) # Block_max_llx(block2)
            \/ Block_min_llx(block1) # Block_max_llx(block2)
         THEN FALSE
    ELSE TRUE

compatible_lines(line1, line2) ==
    IF \/ Line_min_font_size(line1) # Line_max_font_size(line1)
       \/ Line_min_font_size(line2) # Line_max_font_size(line2)
       \/ Line_min_font_size(line1) # Line_min_font_size(line2)
    THEN FALSE
    ELSE IF line1.bbox.llx # line2.bbox.llx THEN FALSE
    ELSE TRUE

can_join(block1, block2, max_join_relative_gap) ==
    IF ~compatible_blocks(block1, block2) THEN FALSE
    ELSE /\ is_above(block1.bbox, block2.bbox)
         /\ AtMost(vertical_distance(block1.bbox, block2.bbox),
                   Block_min_font_size(block1), max_join_relative_gap)

\* The first i (from 1) with can_join(blocks[i], blocks[i + 1]), 0 if none.
FirstJoin(blocks, gap) ==
    LET S == {i \in 1..(Len(blocks) - 1) : can_join(blocks[i], blocks[i + 1], gap)}
    IN  IF S = {} THEN 0 ELSE SetMin(S)

\* prev.add_line(line) for each line of block, then page.blocks.remove(block).
JoinBlocks(blocks, i) ==
    SubSeq(blocks, 1, i - 1)
    \o <<add_lines(blocks[i], blocks[i + 1].lines)>>
    \o SubSeq(blocks, i + 2, Len(blocks))

\* The while loop of join_page_blocks.
RECURSIVE join_loop(_, _, _)
join_loop(blocks, gap, join_count) ==
    LET i == FirstJoin(blocks, gap)
    IN  IF i = 0 THEN [blocks |-> blocks, count |-> join_count]
        ELSE join_loop(JoinBlocks(blocks, i), gap, join_count + 1)

join_page_blocks(page, max_join_relative_gap) ==
    LET r == join_loop(page.blocks, max_join_relative_gap, 0)
    IN  [obj |-> [page EXCEPT !.blocks = r.blocks], count |-> r.count]

\* The Lines of a page in order, over its blocks.
PageLines(page) ==
    Flatten([i \in 1..Len(page.blocks) |-> page.blocks[i].lines])

\* The rounded relative gaps one page adds to gap_count, in order.
RECURSIVE page_gaps(_, _)
page_gaps(lines, i) ==
    IF i > Len(lines) THEN <<>>
    ELSE LET prev_line == lines[i - 1]
             line == lines[i]
         IN  IF compatible_lines(prev_line, line) /\ is_above(prev_line.bbox, line.bbox)
             THEN <<RoundHalfEven(vertical_distance(prev_line.bbox, line.bbox) * 100,
                                  Line_max_font_size(line))>>
                  \o page_gaps(lines, i + 1)
             ELSE page_gaps(lines, i + 1)

document_gaps(document) ==
    Flatten([p \in 1..Len(document.pages) |->
                page_gaps(PageLines(document.pages[p]), 2)])

GapCount(gaps, g) == Cardinality({i \in 1..Len(gaps) : gaps[i] = g})

\* gap_count.most_common(1)[0][0]: the first inserted among the most frequent.
MostCommon(gaps) ==
    gaps[CHOOSE i \in 1..Len(gaps) :
            /\ \A j \in 1..Len(gaps) : GapCount(gaps, gaps[j]) <= GapCount(gaps, gaps[i])
            /\ \A j \in 1..(i - 1) : GapCount(gaps, gaps[j]) < GapCount(gaps, gaps[i])]

\* The most common gap whatever its size.
most_common_prose_line_gap_any(document) ==
    LET gaps == document_gaps(document)
    IN  IF Len(gaps) < MinGapCount THEN DEFAULT_JOIN_GAP
        ELSE MostCommon(gaps) * 10

\* most_common_prose_line_gap, in hundredths.
most_common_prose_line_gap(document) ==
    LET gaps == document_gaps(document)
    IN  IF Len(gaps) < MinGapCount THEN DEFAULT_JOIN_GAP
        ELSE IF MostCommon(gaps) * 10 < DEFAULT_JOIN_GAP THEN DEFAULT_JOIN_GAP
        ELSE MostCommon(gaps) * 10

\* roundto/2 with roundto = 0.1, in hundredths.
HalfRound == 5

\* The gap as estimated, whatever the split threshold.
ClampGap_none(gap, min_split_relative_gap) == gap

ClampGap(gap, min_split_relative_gap) == Min(gap, min_split_relative_gap - HalfRound)

\* Lines 193-198 of revise_document_blocks: the join threshold in effect.
calibrated_gap(document, args) ==
    IF args.max_join_relative_gap = None
    THEN ClampGap(most_common_prose_line_gap(document) + HalfRound,
                  args.min_split_relative_gap)
    ELSE args.max_join_relative_gap

(***************************************************************************)
(* State.  main() of loadfreki.py, of the filters and of reviseblocks.py:  *)
(* for each input file, load it (a ValueError is logged and the loop       *)
(* continues, any other exception leaves main), let a filter remove lines  *)
(* or revise the blocks, print the document.                               *)
(***************************************************************************)
VARIABLES
    files,        \* argv: the input texts
    fn,           \* index in files of the file main is at
    pc,           \* position of main
    document,     \* the Document of the current file
    before,       \* the Document as it was when the mutating call began
    removed,      \* return value of Document.remove_lines, None before the call
    stdout,       \* what main printed: the file index, the text, removed
    log,          \* files skipped after a ValueError of load_freki_document
    uncaught,     \* the exception that left main, "none" while it runs
    args,         \* reviseblocks: min_split_relative_gap, max_join_relative_gap
    stored_gap,   \* revise_document_blocks: the configured join gap
    page,         \* revise_document_blocks: index of the page of the for loop
    split_count,  \* revise_document_blocks: splits so far
    join_count,   \* revise_document_blocks: joins so far
    returned,     \* the (split_count, join_count) each call returned
    candidates,   \* filterpagenumbers: page_number_candidates(document)
    found,        \* filterpagenumbers: what find_page_number_lines computed
    child,        \* scannedpdf: the state of the Process of run_with_timeout
    queue,        \* scannedpdf: the Queue between mp_run and run_with_timeout
    clock,        \* scannedpdf: seconds process.join has waited
    is_scanned,   \* scannedpdf: what run_with_timeout returned to main
    found_scanned, \* scannedpdf: main's found_scanned
    line,         \* common: the text given to categorize_line
    category      \* common: what categorize_line returned

mainVars == <<files, fn, pc, document, before, removed, stdout, log, uncaught>>

reviseVars == <<args, stored_gap, page, split_count, join_count, returned>>

pageNumberVars == <<candidates, found>>

scanVars == <<child, queue, clock, is_scanned, found_scanned>>

classifyVars == <<line, category>>

toolVars == <<scanVars, classifyVars>>

vars == <<mainVars, reviseVars, pageNumberVars, toolVars>>

NoDocument == [id |-> "", pages |-> <<>>]

NoArgs == [min_split_relative_gap |-> DEFAULT_SPLIT_GAP, max_join_relative_gap |-> None]

NotFound == [lis |-> <<>>, logged |-> "none", count |-> 0, sequences |-> <<>>,
             lines |-> <<>>]

InitMain ==
    /\ fn = 1
    /\ pc = "load"
    /\ document = NoDocument
    /\ before = NoDocument
    /\ removed = None
    /\ stdout = <<>>
    /\ log = <<>>
    /\ uncaught = "none"

InitRevise ==
    /\ stored_gap = None
    /\ page = 0
    /\ split_count = 0
    /\ join_count = 0
    /\ returned = <<>>

InitPageNumbers ==
    /\ candidates = <<>>
    /\ found = NotFound

InitScan ==
    /\ child = "none"
    /\ queue = <<>>
    /\ clock = 0
    /\ is_scanned = "None"
    /\ found_scanned = FALSE

InitClassify ==
    /\ line = <<>>
    /\ category = "none"

InitTools == InitScan /\ InitClassify

(***************************************************************************)
(* Inputs of the document model.  Two line geometries X and Y; U is their  *)
(* union.                                                                  *)
(***************************************************************************)
MaxRecords == 4
MaxFilterRecords == 4
MaxRemove == 2
NFiles == 2
MaxBatchRecords == 2

BoxX == <<1, 1, 5, 3>>
BoxY == <<2, 4, 7, 6>>
BoxU == <<1, 1, 7, 6>>

FontF == [tag |-> "", name |-> "F", size |-> 1000]

LineX == Content(1, <<FontF>>, BoxX, <<>>, 0, "x")
LineY == Content(2, <<FontF>>, BoxY, <<>>, 0, "y")

PreambleU == Preamble("d", 1, <<0>>, BoxU, <<>>, 1, 2)
PreambleX2 == Preamble("d", 2, <<0>>, BoxX, <<>>, 1, 2)
PreambleNone == Preamble("d", 1, <<0>>, <<>>, <<>>, 1, 2)
PreambleE == Preamble("e", 1, <<0>>, BoxU, <<>>, 1, 2)

\* loadfreki.main, one file.
Records ==
    { PreambleU,                                    \* bbox containing X and Y
      PreambleX2,                                   \* bbox X, on page 2
      PreambleNone,                                 \* bbox None,None,None,None
      LineX,                                        \* no iscore, no padding
      LineY,
      Content(1, <<FontF>>, BoxX, <<5, 0>>, 0, "x"),    \* iscore=0.50
      Content(2, <<FontF>>, BoxY, <<>>, 2, "y"),        \* padding only
      Content(1, <<FontF>>, BoxX, <<5, 0>>, 1, "x"),    \* iscore=0.50, padding
      Content(2, <<FontF>>, BoxY, <<5>>, 0, "y"),       \* iscore=0.5
      Blank, Other }

Texts == SeqsUpTo(Records, MaxRecords)

\* Texts as Document.to_freki lays them out: a block of up to MaxBlockLines
\* content lines, followed by nothing or by a second block on the same or on
\* another page.
MaxBlockLines == 2

RoundTails == {<<>>, <<PreambleU, LineX, Blank>>, <<PreambleX2, LineX, Blank>>}

RoundTexts ==
    {<<p>> \o ls \o <<Blank>> \o tail :
        p \in {PreambleU, PreambleX2},
        ls \in SeqsUpTo({r \in Records : r.t = "line"}, MaxBlockLines) \ {<<>>},
        tail \in RoundTails}

\* A filter's main, one file.
FilterRecords == {PreambleU, PreambleX2, PreambleNone, LineX, LineY, Blank}

FilterTexts == SeqsUpTo(FilterRecords, MaxFilterRecords)

\* loadfreki.main, a batch.
BatchRecords == {PreambleU, PreambleE, LineX, Blank, Other}

BatchTexts == SeqsUpTo(BatchRecords, MaxBatchRecords)

Init ==
    /\ files \in {<<t>> : t \in Texts \cup RoundTexts}
    /\ InitMain
    /\ args = NoArgs
    /\ InitRevise
    /\ InitPageNumbers
    /\ InitTools

InitBatch ==
    /\ files \in [1..NFiles -> BatchTexts]
    /\ InitMain
    /\ args = NoArgs
    /\ InitRevise
    /\ InitPageNumbers
    /\ InitTools

InitFilter ==
    /\ files \in {<<t>> : t \in FilterTexts}
    /\ InitMain
    /\ args = NoArgs
    /\ InitRevise
    /\ InitPageNumbers
    /\ InitTools

(***************************************************************************)
(* main.                                                                   *)
(***************************************************************************)
MainLoad ==
    /\ pc = "load"
    /\ fn <= Len(files)
    /\ LET r == load_freki_document(files[fn])
       IN  CASE r.exc = "none" ->
                  /\ document' = r.val
                  /\ pc' = "loaded"
                  /\ UNCHANGED <<fn, log, uncaught>>
             [] r.exc = "ValueError" ->
                  /\ log' = Append(log, fn)
                  /\ fn' = fn + 1
                  /\ UNCHANGED <<document, pc, uncaught>>
             [] OTHER ->
                  /\ uncaught' = r.exc
                  /\ pc' = "crashed"
                  /\ UNCHANGED <<document, fn, log>>
    /\ before' = NoDocument
    /\ removed' = None
    /\ UNCHANGED <<files, stdout, reviseVars, pageNumberVars, toolVars>>

\* The lists of Line objects a filter may ask to remove: lines of the
\* document or not, with or without repetition.
Requests == SeqsUpTo(1..MaxFilterRecords, MaxRemove)

MainRemoveLines ==
    /\ pc = "loaded"
    /\ \E lines \in Requests :
          LET r == Document_remove_lines(document, lines)
          IN  /\ document' = r.obj
              /\ removed' = r.removed
    /\ before' = document
    /\ pc' = "filtered"
    /\ UNCHANGED <<files, fn, stdout, log, uncaught, reviseVars, pageNumberVars, toolVars>>

PrintDocument ==
    /\ stdout' = Append(stdout, [fn |-> fn, text |-> Document_to_freki(document),
                                 removed |-> removed])
    /\ fn' = fn + 1
    /\ pc' = "load"
    /\ UNCHANGED <<files, document, before, removed, log, uncaught, reviseVars,
                   pageNumberVars, toolVars>>

MainPrint ==
    /\ pc \in {"loaded", "filtered"}
    /\ PrintDocument

MainExit ==
    /\ pc = "load"
    /\ fn > Len(files)
    /\ pc' = "done"
    /\ UNCHANGED <<files, fn, document, before, removed, stdout, log, uncaught,
                   reviseVars, pageNumberVars, toolVars>>

\* loadfreki.main
Next == MainLoad \/ MainPrint \/ MainExit

Spec == Init /\ [][Next]_vars

SpecBatch == InitBatch /\ [][Next]_vars

\* main of a filter: load, remove the lines found, print.
NextFilter == MainLoad \/ MainRemoveLines \/ MainPrint \/ MainExit

SpecFilter == InitFilter /\ [][NextFilter]_vars

(***************************************************************************)
(* Claims about the document model.                                        *)
(***************************************************************************)
\* The blocks of a document, over its pages, as <<page, block>> positions.
BlockPositions(doc) ==
    UNION {{<<p, b>> : b \in 1..Len(doc.pages[p].blocks)} : p \in 1..Len(doc.pages)}

BlockAt(doc, pb) == doc.pages[pb[1]].blocks[pb[2]]

\* The index of the preamble that opens the block of content line i.
PreambleOf(text, i) ==
    SetMax({j \in 1..i : text[j].t = "preamble"})

BoxContains(outer, inner) ==
    /\ outer[1] <= inner[1]
    /\ outer[2] <= inner[2]
    /\ outer[3] >= inner[3]
    /\ outer[4] >= inner[4]

\* A text as the serializer lays it out: blocks of a preamble, one or more
\* content lines and one blank line, one doc_id, each preamble bbox
\* containing the bboxes of its lines, iscores of two decimals.
WellFormed(text) ==
    /\ Len(text) > 0
    /\ text[1].t = "preamble"
    /\ text[Len(text)].t = "blank"
    /\ \A i \in 1..Len(text) :
          CASE text[i].t = "preamble" ->
                 /\ i = 1 \/ text[i - 1].t = "blank"
                 /\ text[i + 1].t = "line"
                 /\ text[i].bbox # <<>>
                 /\ text[i].doc_id = text[1].doc_id
            [] text[i].t = "line" ->
                 /\ text[i - 1].t \in {"preamble", "line"}
                 /\ Len(text[i].iscore) \in {0, 2}
                 /\ BoxContains(text[PreambleOf(text, i)].bbox, text[i].bbox)
            [] text[i].t = "blank" -> text[i - 1].t = "line"
            [] OTHER -> FALSE

IsSingleton(text, i) ==
    /\ text[i].t = "line"
    /\ text[i - 1].t = "preamble"
    /\ text[i + 1].t = "blank"

\* The only line of a block carries neither an iscore nor padding.
SingletonsBare(text) ==
    \A i \in 2..(Len(text) - 1) :
        IsSingleton(text, i) => text[i].iscore = <<>> /\ text[i].blanks = 0

Unmutated(out) == out.removed \in {None, 0}

\* C1 as stated: the text main prints for an unmutated document is the input
\* text, for every well-formed input, blocks of one line included, with or
\* without iscore and padding.
C1_RoundTripAnyBlock ==
    \A k \in 1..Len(stdout) :
        (Unmutated(stdout[k]) /\ WellFormed(files[stdout[k].fn]))
            => stdout[k].text = files[stdout[k].fn]

\* C1 amended: the text main prints for an unmutated document is the input
\* text, for every well-formed input in which a block of one line carries
\* neither iscore nor padding; lines of longer blocks may carry either.
C1_RoundTrip ==
    \A k \in 1..Len(stdout) :
        (/\ Unmutated(stdout[k])
         /\ WellFormed(files[stdout[k].fn])
         /\ SingletonsBare(files[stdout[k].fn]))
            => stdout[k].text = files[stdout[k].fn]

C1_Witness ==
    \E k \in 1..Len(stdout) :
        LET text == files[stdout[k].fn]
        IN  /\ Unmutated(stdout[k])
            /\ WellFormed(text)
            /\ SingletonsBare(text)
            /\ \E i \in 1..Len(text) : text[i].t = "line" /\ text[i].iscore # <<>>
            /\ \E i \in 1..Len(text) : text[i].t = "line" /\ text[i].blanks > 0
            /\ \E i \in 2..Len(text) : text[i].t = "preamble" /\ text[i].page # text[1].page
            /\ stdout[k].text = text

\* C2 as stated: after Document.remove_lines every non-empty block has the
\* union of its lines' bboxes as bbox, whether or not a line was removed
\* from it.
C2_EveryBlockBBoxIsUnion ==
    pc = "filtered" =>
        \A pb \in BlockPositions(document) :
            BlockAt(document, pb).lines # <<>>
                => BlockAt(document, pb).bbox = LinesUnion(BlockAt(document, pb).lines)

\* C2 amended: after Document.remove_lines every block that the call removed
\* a line from and left non-empty has the union of its remaining lines'
\* bboxes as bbox, and every block it removed no line from keeps its bbox.
C2_RemovedFromBBoxIsUnion ==
    pc = "filtered" =>
        \A pb \in BlockPositions(document) :
            LET now == BlockAt(document, pb)
                was == BlockAt(before, pb)
            IN  /\ (now.lines # <<>> /\ Len(now.lines) < Len(was.lines))
                      => now.bbox = LinesUnion(now.lines)
                /\ Len(now.lines) = Len(was.lines) => now.bbox = was.bbox

C2_Witness ==
    /\ pc = "filtered"
    /\ \E pb \in BlockPositions(document) :
          LET now == BlockAt(document, pb)
              was == BlockAt(before, pb)
          IN  /\ now.lines # <<>>
              /\ Len(now.lines) < Len(was.lines)
              /\ now.bbox # was.bbox
              /\ now.bbox = LinesUnion(now.lines)

\* The Line objects of a document, by identity.
LineIds(doc) ==
    UNION {{BlockAt(doc, pb).lines[i].id : i \in 1..Len(BlockAt(doc, pb).lines)} :
             pb \in BlockPositions(doc)}

LineCount(doc) ==
    SumSeq([p \in 1..Len(doc.pages) |->
              SumSeq([b \in 1..Len(doc.pages[p].blocks) |->
                        Len(doc.pages[p].blocks[b].lines)])])

\* The call that led to the state was Document.remove_lines(lines).
Called(lines) ==
    Document_remove_lines(before, lines) = [obj |-> document, removed |-> removed]

\* C12: Document.remove_lines(lines) returns exactly the number of Line
\* objects it removed from the tree; a Line requested more than once or not
\* in the document raises no error, is removed once at most and is counted
\* only if it was removed.
C12_ReturnsCountRemoved ==
    pc = "filtered" =>
        /\ uncaught = "none"
        /\ removed = LineCount(before) - LineCount(document)
        /\ \A lines \in Requests :
              Called(lines) =>
                  /\ removed = Cardinality(Range(lines) \cap LineIds(before))
                  /\ LineIds(document) = LineIds(before) \ Range(lines)

\* A line requested twice and removed once, next to a line that stays, and
\* a call with a line that is not in the document.
C12_Witness ==
    /\ pc = "filtered"
    /\ removed = 1
    /\ LineIds(document) # {}
    /\ \E lines \in Requests :
          /\ Called(lines)
          /\ Len(lines) = 2
          /\ lines[1] = lines[2]
          /\ lines[1] \in LineIds(before)
    /\ \E lines \in Requests :
          /\ Called(lines)
          /\ Range(lines) \ LineIds(before) # {}

\* C13: Document.remove_lines deletes, inserts and reorders no Block and no
\* Page: a Block all of whose Lines are removed stays in place with its bbox
\* unchanged, a Block holding none of the requested Lines is unchanged, and
\* the remaining Lines of every Block keep their relative order.
C13_BlocksStayInPlace ==
    pc = "filtered" =>
        /\ Len(document.pages) = Len(before.pages)
        /\ \A p \in 1..Len(before.pages) :
              /\ Len(document.pages[p].blocks) = Len(before.pages[p].blocks)
              /\ [document.pages[p] EXCEPT !.blocks = <<>>]
                     = [before.pages[p] EXCEPT !.blocks = <<>>]
        /\ \A pb \in BlockPositions(before) :
              LET now == BlockAt(document, pb)
                  was == BlockAt(before, pb)
              IN  /\ [now EXCEPT !.lines = <<>>, !.bbox = <<>>]
                         = [was EXCEPT !.lines = <<>>, !.bbox = <<>>]
                  /\ now.lines = <<>> => now.bbox = was.bbox
                  /\ now.lines = was.lines => now = was
        /\ \A lines \in Requests :
              Called(lines) =>
                  \A pb \in BlockPositions(before) :
                      BlockAt(document, pb).lines
                          = SelectSeq(BlockAt(before, pb).lines,
                                      LAMBDA l : l.id \notin Range(lines))

\* A block emptied by the call, still in its page before a block that is
\* not emptied, with the bbox it had.
C13_Witness ==
    /\ pc = "filtered"
    /\ \E pb \in BlockPositions(document) :
          /\ BlockAt(before, pb).lines # <<>>
          /\ BlockAt(document, pb).lines = <<>>
          /\ BlockAt(document, pb).bbox = BlockAt(before, pb).bbox
          /\ <<pb[1], pb[2] + 1>> \in BlockPositions(document)
          /\ BlockAt(document, <<pb[1], pb[2] + 1>>).lines # <<>>

\* The fatal parse conditions, read off the text.
Malformed(text) == \E i \in 1..Len(text) : text[i].t = "other"

NoOpenBlock(text) ==
    \E i \in 1..Len(text) :
        /\ text[i].t = "line"
        /\ i = 1 \/ text[i - 1].t = "blank"

ZeroBlocks(text) == \A i \in 1..Len(text) : text[i].t # "preamble"

ManyDocIds(text) ==
    \E i, j \in 1..Len(text) :
        /\ text[i].t = "preamble"
        /\ text[j].t = "preamble"
        /\ text[i].doc_id # text[j].doc_id

Fatal(text) ==
    Malformed(text) \/ NoOpenBlock(text) \/ ZeroBlocks(text) \/ ManyDocIds(text)

\* C9: a file with a fatal parse condition never takes main down: main is
\* not left at that file by an exception, and once main is past the file,
\* the file is among those logged as failed.
C9_FatalParseSkipsFile ==
    \A k \in 1..Len(files) :
        Fatal(files[k]) =>
            /\ ~(pc = "crashed" /\ fn = k)
            /\ fn > k => k \in Range(log)

\* The text without the blocks whose preamble has the bbox
\* None,None,None,None: the preamble and the content lines after it.
RECURSIVE SkipEmptyBBox(_, _)
SkipEmptyBBox(text, skipping) ==
    IF text = <<>> THEN <<>>
    ELSE LET rec == Head(text)
         IN  IF rec.t = "preamble"
             THEN IF rec.bbox = <<>> THEN SkipEmptyBBox(Tail(text), TRUE)
                  ELSE <<rec>> \o SkipEmptyBBox(Tail(text), FALSE)
             ELSE IF rec.t = "line" /\ skipping THEN SkipEmptyBBox(Tail(text), TRUE)
             ELSE <<rec>> \o SkipEmptyBBox(Tail(text), FALSE)

HasEmptyBBox(text) ==
    \E i \in 1..Len(text) : text[i].t = "preamble" /\ text[i].bbox = <<>>

\* A document without the identities of its Lines and Blocks.
DocData(doc) ==
    [p \in 1..Len(doc.pages) |->
        [b \in 1..Len(doc.pages[p].blocks) |->
            [doc.pages[p].blocks[b] EXCEPT
                !.obj = <<>>,
                !.lines = [l \in 1..Len(@) |->
                              [@[l] EXCEPT !.id = 0, !.block = <<>>]]]]]

\* C10: when a file has a preamble with the bbox None,None,None,None and
\* loads without it and its content lines, it loads with them to the same
\* document: no exception, no line of the skipped block in another block.
C10_SkipsExactlyThatBlock ==
    (/\ pc \in {"loaded", "crashed"}
     /\ HasEmptyBBox(files[fn])
     /\ load_freki_document(SkipEmptyBBox(files[fn], FALSE)).exc = "none")
        => /\ pc = "loaded"
           /\ DocData(document) =
                  DocData(load_freki_document(SkipEmptyBBox(files[fn], FALSE)).val)

(***************************************************************************)
(* find_page_number_lines applied to the candidates of a document.  The    *)
(* candidates are in document order; the Line of a candidate is identified *)
(* by its position.  Short lists over a few (page_index, number) pairs in  *)
(* two formats "a" and "b", and two long lists in which every page has two *)
(* candidates for the same number.                                         *)
(***************************************************************************)
MaxCands == 4
ErrorPositions == 20
WarnPositions == 10

CandidatePairs == {<<0, 1>>, <<1, 5>>, <<2, 3>>, <<3, 7>>, <<0, 2>>, <<1, 2>>}

CandidateLetters ==
    {<<pr, "a">> : pr \in CandidatePairs} \cup {<< <<0, 1>>, "b">>, << <<1, 2>>, "b">>}

MakeCandidates(letters) ==
    [i \in 1..Len(letters) |->
        PageNumberCandidate(letters[i][1][1], letters[i][1][2], letters[i][2], i)]

\* npos pages, each with two candidates for the number page_index + 1.
Repeated(npos) ==
    [i \in 1..(2 * npos) |->
        PageNumberCandidate((i - 1) \div 2, ((i - 1) \div 2) + 1, "a", i)]

CandidateLists ==
    {MakeCandidates(l) : l \in SeqsUpTo(CandidateLetters, MaxCands)}
        \cup {Repeated(ErrorPositions), Repeated(WarnPositions)}

InitFind ==
    /\ candidates \in CandidateLists
    /\ found = NotFound
    /\ files = <<>>
    /\ fn = 1
    /\ pc = "find"
    /\ document = NoDocument
    /\ before = NoDocument
    /\ removed = None
    /\ stdout = <<>>
    /\ log = <<>>
    /\ uncaught = "none"
    /\ args = NoArgs
    /\ InitRevise
    /\ InitTools

FindPageNumberLines ==
    /\ pc = "find"
    /\ found' = find_page_number_lines(candidates)
    /\ pc' = "found"
    /\ UNCHANGED <<files, fn, document, before, removed, stdout, log, uncaught,
                   reviseVars, candidates, toolVars>>

NextFind == FindPageNumberLines

SpecFind == InitFind /\ [][NextFind]_vars

(***************************************************************************)
(* Claims about the page number sequence.                                  *)
(***************************************************************************)
Pairs(cs) == [i \in 1..Len(cs) |-> Pair(cs[i])]

ExamplePairs == << <<0, 1>>, <<1, 5>>, <<2, 3>>, <<3, 7>> >>

IsExample ==
    /\ pc = "found"
    /\ Pairs(candidates) = ExamplePairs
    /\ \A i \in 1..Len(candidates) : candidates[i].key = "a"

\* C3 as stated: for the candidates (0,1),(1,5),(2,3),(3,7) the longest
\* increasing subsequence returned is (0,1),(1,5),(3,7).
C3_ExampleKeepsOneFive ==
    IsExample => Pairs(found.lis) = << <<0, 1>>, <<1, 5>>, <<3, 7>> >>

\* C3 amended: for the candidates (0,1),(1,5),(2,3),(3,7) the longest
\* increasing subsequence returned is (0,1),(2,3),(3,7), without (1,5).
C3_ExampleKeepsTwoThree ==
    IsExample => Pairs(found.lis) = << <<0, 1>>, <<2, 3>>, <<3, 7>> >>

C3_Witness ==
    /\ IsExample
    /\ Len(found.lis) = 3
    /\ \A i \in 1..Len(found.lis) : Pair(found.lis[i]) # <<1, 5>>

\* The lengths of the longest increasing subsequences of seq that end at
\* each of its elements.
RECURSIVE LongestEnding(_, _)
LongestEnding(seq, acc) ==
    IF Len(acc) = Len(seq) THEN acc
    ELSE LET i == Len(acc) + 1
             before_i == {acc[j] : j \in {k \in 1..(i - 1) : Lt(seq[k], seq[i])}}
         IN  LongestEnding(seq, Append(acc, 1 + SetMax(before_i \cup {0})))

MaxIncreasingLen(seq) == SetMax(Range(LongestEnding(seq, <<>>)) \cup {0})

\* C4: the subsequence that longest_increasing_subsequence returns for the
\* group of candidates chosen is as long as the longest subsequence of that
\* group that increases in both page_index and number.
C4_LongestIsOptimal ==
    (pc = "found" /\ candidates # <<>>) =>
        Len(found.lis) =
            MaxIncreasingLen(candidate_group(candidates, found.lis[1].key))

\* The ways to pick, for each pair of seq, one candidate of the group with
\* that pair.
RECURSIVE Choices(_, _)
Choices(seq, group) ==
    IF seq = <<>> THEN {<<>>}
    ELSE {<<c>> \o s : c \in {x \in Range(group) : Pair(x) = Head(seq)},
                       s \in Choices(Tail(seq), group)}

RECURSIVE ProductOfSizes(_, _)
ProductOfSizes(seq, group) ==
    IF seq = <<>> THEN 1
    ELSE Cardinality({x \in Range(group) : Pair(x) = Head(seq)})
             * ProductOfSizes(Tail(seq), group)

\* C5: with the product of the numbers of candidates at the positions of
\* the sequence found above 1,000,000, candidate_sequences returns no
\* sequence and find_page_number_lines no line; with the product at most
\* 1,000,000, the sequences are exactly the cross product, each once, and a
\* warning is logged exactly above 1,000; the guard takes 1,000,000 for a
\* product to enumerate and 1,000,001 for one not to.
C5_DisambiguationBound ==
    /\ (pc = "found" /\ candidates # <<>>) =>
        LET group == candidate_group(candidates, found.lis[1].key)
            product == ProductOfSizes(Pairs(found.lis), group)
        IN  IF product > 1000000
            THEN /\ found.sequences = <<>>
                 /\ found.lines = <<>>
                 /\ found.logged = "error"
            ELSE /\ Range(found.sequences) = Choices(Pairs(found.lis), group)
                 /\ Len(found.sequences) = product
                 /\ found.logged = (IF product > 1000 THEN "warning" ELSE "none")
    /\ pc = "found" => ~TooMany(1000000) /\ TooMany(1000001)

C5_Witness ==
    /\ pc = "found"
    /\ found.lis # <<>>
    /\ ProductOfSizes(Pairs(found.lis),
                      candidate_group(candidates, found.lis[1].key)) > 1000000
    /\ found.lines = <<>>

\* The candidates of the group that the sequence found was taken from.
WinningGroup == candidate_group(candidates, found.lis[1].key)

\* The first candidate of group, in document order, with the pair.
FirstWith(group, pair) ==
    group[SetMin({k \in 1..Len(group) : Pair(group[k]) = pair})]

\* C23: when find_page_number_lines returns lines, it returns one Line for
\* each position of the longest increasing subsequence of the winning
\* group, the Line of the first candidate of that group, in document order,
\* with the (page_index, number) of the position; the Lines are pairwise
\* distinct and their page_index and number strictly increase.
C23_FirstCandidatePerPosition ==
    (pc = "found" /\ found.lines # <<>>) =>
        /\ Len(found.lines) = Len(found.lis)
        /\ \A i \in 1..Len(found.lines) :
              found.lines[i] = FirstWith(WinningGroup, Pair(found.lis[i])).line
        /\ \A i, j \in 1..Len(found.lines) :
              i # j => found.lines[i] # found.lines[j]
        /\ \A i \in 1..(Len(found.lines) - 1) :
              /\ candidates[found.lines[i]].page_index
                     < candidates[found.lines[i + 1]].page_index
              /\ candidates[found.lines[i]].number
                     < candidates[found.lines[i + 1]].number

\* Lines were returned for a sequence of two positions or more, one of
\* which has two candidates in the winning group.
C23_Witness ==
    /\ pc = "found"
    /\ Len(found.lines) > 1
    /\ Len(found.sequences) > 1
    /\ \E i \in 1..Len(found.lis) :
          Len(candidates_by(WinningGroup, Pair(found.lis[i]))) > 1

(***************************************************************************)
(* reviseblocks.main and revise_document_blocks.  The documents are loaded *)
(* from texts: pages of a few lines, each line 10 points high at one of    *)
(* four heights, in any order and in any division into blocks, and body    *)
(* pages of one block of evenly spaced lines.                              *)
(***************************************************************************)
MaxPageLines == 3
BodyLines == 11
MaxRuns == 2

\* <<lly, font size in hundredths, llx>>
ReviseLetters ==
    {<<60, 1000, 0>>, <<48, 1000, 0>>, <<30, 1000, 0>>, <<10, 1000, 0>>,
     <<48, 1200, 0>>, <<30, 1000, 3>>}

ReviseLine(letter, n) ==
    Content(n, <<[tag |-> "", name |-> "F", size |-> letter[2]]>>,
            <<letter[3], letter[1], letter[3] + 50, letter[1] + 10>>, <<>>, 0, "x")

\* The bbox of a preamble written for these content lines.
TightBox(recs) ==
    <<SetMin({recs[i].bbox[1] : i \in 1..Len(recs)}),
      SetMin({recs[i].bbox[2] : i \in 1..Len(recs)}),
      SetMax({recs[i].bbox[3] : i \in 1..Len(recs)}),
      SetMax({recs[i].bbox[4] : i \in 1..Len(recs)})>>

BlockText(recs, block_no) ==
    <<Preamble("d", 1, <<block_no>>, TightBox(recs), <<>>,
               recs[1].line_num, recs[Len(recs)].line_num)>> \o recs \o <<Blank>>

\* The text of a page of the content lines recs, a block ending after each
\* line of cuts and after the last line.
RECURSIVE PageText(_, _, _, _)
PageText(recs, cuts, start, block_no) ==
    IF start > Len(recs) THEN <<>>
    ELSE LET stop == SetMin({c \in cuts : c >= start} \cup {Len(recs)})
         IN  BlockText(SubSeq(recs, start, stop), block_no)
                 \o PageText(recs, cuts, stop + 1, block_no + 1)

FreeTexts ==
    UNION {{PageText([i \in 1..Len(ls) |-> ReviseLine(ls[i], i)], cuts, 1, 1) :
                cuts \in SUBSET (1..(Len(ls) - 1))} :
           ls \in SeqsUpTo(ReviseLetters, MaxPageLines) \ {<<>>}}

\* One block of BodyLines lines of font size 10, gap points apart.
BodyText(gap) ==
    BlockText([i \in 1..BodyLines |->
                  ReviseLine(<<(BodyLines - i) * (10 + gap), 1000, 0>>, i)], 1)

BodyTexts == {BodyText(5), BodyText(9), BodyText(12)}

\* A block whose preamble gives an end_line after its last line, as a filter
\* leaves it when it removes the last line: two lines 20 points apart.
StaleEndText ==
    <<Preamble("d", 1, <<1>>, <<0, 30, 50, 70>>, <<>>, 1, 3),
      ReviseLine(<<60, 1000, 0>>, 1), ReviseLine(<<30, 1000, 0>>, 2), Blank>>

\* Two blocks of one line, 2 points apart, the first with a preamble bbox
\* larger than its line.
LooseText ==
    <<Preamble("d", 1, <<1>>, <<0, 60, 80, 90>>, <<>>, 1, 1),
      ReviseLine(<<60, 1000, 0>>, 1), Blank,
      Preamble("d", 1, <<2>>, <<0, 48, 50, 58>>, <<>>, 2, 2),
      ReviseLine(<<48, 1000, 0>>, 2), Blank>>

\* A line whose bbox is the point (llx, lly).
ZeroLine(letter, n) ==
    Content(n, <<[tag |-> "", name |-> "F", size |-> letter[2]]>>,
            <<letter[3], letter[1], letter[3], letter[1]>>, <<>>, 0, "x")

\* Pages of two blocks of one line, every bbox of zero size.
ZeroTexts ==
    {<<Preamble("d", 1, <<1>>, ZeroLine(a, 1).bbox, <<>>, 1, 1), ZeroLine(a, 1), Blank,
       Preamble("d", 1, <<2>>, ZeroLine(b, 2).bbox, <<>>, 2, 2), ZeroLine(b, 2), Blank>> :
        a \in {<<0, 1000, 0>>, <<60, 1000, 0>>},
        b \in {<<0, 1000, 0>>, <<0, 1200, 0>>, <<0, 1000, 3>>}}

EdgeTexts == {StaleEndText, LooseText} \cup ZeroTexts

ArgsSet ==
    {[min_split_relative_gap |-> DEFAULT_SPLIT_GAP, max_join_relative_gap |-> None],
     [min_split_relative_gap |-> 90, max_join_relative_gap |-> None],
     [min_split_relative_gap |-> DEFAULT_SPLIT_GAP, max_join_relative_gap |-> 120]}

\* --min-split-relative-gap 0.5, below the default join threshold.
LowSplitArgs == [min_split_relative_gap |-> 50, max_join_relative_gap |-> None]

\* The pages with each of ArgsSet, the body pages and the pages of EdgeTexts
\* with LowSplitArgs as well.
InitReviseMain ==
    /\ files \in {<<t>> : t \in FreeTexts \cup BodyTexts \cup EdgeTexts}
    /\ InitMain
    /\ \/ args \in ArgsSet
       \/ args = LowSplitArgs /\ files[1] \in BodyTexts \cup EdgeTexts
    /\ InitRevise
    /\ InitPageNumbers
    /\ InitTools

\* revise_document_blocks up to the loop over the pages.
ReviseStart ==
    /\ pc \in {"loaded", "revised"}
    /\ Len(returned) < MaxRuns
    /\ stored_gap' = args.max_join_relative_gap
    /\ args' = [args EXCEPT !.max_join_relative_gap = calibrated_gap(document, args)]
    /\ before' = document
    /\ page' = 1
    /\ split_count' = 0
    /\ join_count' = 0
    /\ pc' = "split"
    /\ UNCHANGED <<files, fn, document, removed, stdout, log, uncaught, returned,
                   pageNumberVars, toolVars>>

\* split_count += split_page_blocks(page, args)
SplitPageBlocks ==
    /\ pc = "split"
    /\ page <= Len(document.pages)
    /\ LET r == split_page_blocks(document.pages[page], args.min_split_relative_gap)
       IN  /\ document' = [document EXCEPT !.pages[page] = r.obj]
           /\ split_count' = split_count + r.count
    /\ pc' = "join"
    /\ UNCHANGED <<files, fn, before, removed, stdout, log, uncaught, args,
                   stored_gap, page, join_count, returned, pageNumberVars, toolVars>>

\* join_count += join_page_blocks(page, args)
JoinPageBlocks ==
    /\ pc = "join"
    /\ LET r == join_page_blocks(document.pages[page], args.max_join_relative_gap)
       IN  /\ document' = [document EXCEPT !.pages[page] = r.obj]
           /\ join_count' = join_count + r.count
    /\ page' = page + 1
    /\ pc' = "split"
    /\ UNCHANGED <<files, fn, before, removed, stdout, log, uncaught, args,
                   stored_gap, split_count, returned, pageNumberVars, toolVars>>

\* args.max_join_relative_gap = stored_gap; return split_count, join_count
ReviseReturn ==
    /\ pc = "split"
    /\ page > Len(document.pages)
    /\ args' = [args EXCEPT !.max_join_relative_gap = stored_gap]
    /\ returned' = Append(returned, <<split_count, join_count>>)
    /\ pc' = "revised"
    /\ UNCHANGED <<files, fn, document, before, removed, stdout, log, uncaught,
                   stored_gap, page, split_count, join_count, pageNumberVars, toolVars>>

\* print(document.to_freki()); returned starts anew for the next file.
RevisePrint ==
    /\ pc = "revised"
    /\ stdout' = Append(stdout, [fn |-> fn, text |-> Document_to_freki(document),
                                 removed |-> removed])
    /\ fn' = fn + 1
    /\ pc' = "load"
    /\ returned' = <<>>
    /\ UNCHANGED <<files, document, before, removed, log, uncaught, args,
                   stored_gap, page, split_count, join_count, pageNumberVars, toolVars>>

NextRevise ==
    \/ MainLoad
    \/ ReviseStart
    \/ SplitPageBlocks
    \/ JoinPageBlocks
    \/ ReviseReturn
    \/ RevisePrint
    \/ MainExit

SpecRevise == InitReviseMain /\ [][NextRevise]_vars

(***************************************************************************)
(* Claims about block revision.                                            *)
(***************************************************************************)
\* revise_document_blocks is running with a join threshold it calibrated.
Calibrated == pc \in {"split", "join"} /\ stored_gap = None

\* The bounding boxes of the document: of its blocks and of their lines.
DocumentBoxes(doc) ==
    UNION {UNION {{doc.pages[p].blocks[b].bbox}
                      \cup {l.bbox : l \in Range(doc.pages[p].blocks[b].lines)} :
                  b \in 1..Len(doc.pages[p].blocks)} :
           p \in 1..Len(doc.pages)}

\* The vertical distances between boxes of the document, one above the other.
DocumentDistances(doc) ==
    {vertical_distance(pr[1], pr[2]) :
        pr \in {xy \in DocumentBoxes(doc) \X DocumentBoxes(doc) : is_above(xy[1], xy[2])}}

\* The rounded font sizes of the lines of the document.
DocumentFontSizes(doc) ==
    UNION {UNION {{Line_max_font_size(l) : l \in Range(doc.pages[p].blocks[b].lines)} :
                  b \in 1..Len(doc.pages[p].blocks)} :
           p \in 1..Len(doc.pages)}

\* C6: the join threshold that revise_document_blocks calibrates is below
\* the split threshold, and no distance and font size of the document meet
\* both the split condition and the join condition.
C6_CalibratedBelowSplit ==
    Calibrated =>
        /\ args.max_join_relative_gap < args.min_split_relative_gap
        /\ \A d \in DocumentDistances(document), f \in DocumentFontSizes(document) :
              ~(/\ AtLeast(d, f, args.min_split_relative_gap)
                /\ AtMost(d, f, args.max_join_relative_gap))

\* The estimate is above the split threshold and the threshold in effect is
\* the split threshold less half the rounding step.
C6_Witness ==
    /\ Calibrated
    /\ Len(document_gaps(before)) >= MinGapCount
    /\ most_common_prose_line_gap(before) > args.min_split_relative_gap
    /\ args.max_join_relative_gap = args.min_split_relative_gap - HalfRound

\* The pages that the running or the finished call has split and joined.
Revised(q) == (pc = "split" /\ q < page) \/ pc = "revised"

\* The <<block, i>> of page q with can_split holding for lines i and i + 1
\* of the block.
SplittablePairs(doc, q) ==
    UNION {{<<b, i>> : i \in {k \in 1..(Len(doc.pages[q].blocks[b].lines) - 1) :
                                 can_split(doc.pages[q].blocks[b].lines[k],
                                           doc.pages[q].blocks[b].lines[k + 1],
                                           args.min_split_relative_gap)}} :
           b \in 1..Len(doc.pages[q].blocks)}

\* C7: with a calibrated join threshold, once a page has been split and
\* joined none of its blocks has two adjacent lines that can_split holds for.
C7_NoSplittableAfterJoin ==
    stored_gap = None =>
        \A q \in 1..Len(document.pages) :
            Revised(q) => SplittablePairs(document, q) = {}

\* C8: with a calibrated join threshold, the second call on a document
\* returns no split and no join and leaves the document as it was.
C8_SecondRunChangesNothing ==
    (pc = "revised" /\ Len(returned) = 2 /\ stored_gap = None) =>
        /\ returned[2] = <<0, 0>>
        /\ document = before

(***************************************************************************)
(* scannedpdf.main: every pdf is examined in a child Process that          *)
(* run_with_timeout joins for args.timeout seconds.  files[fn] is what     *)
(* pdf_is_scanned does in the child for the pdf: it returns True or False, *)
(* raises an Exception, hangs, or the child dies before mp_run puts        *)
(* anything on the queue.  Python values are written as their str().       *)
(***************************************************************************)
NPdfs == 2
TimeoutTicks == 2

Behaviours == {"True", "False", "ValueError", "hang", "crash"}

PdfLists == UNION {[1..n -> Behaviours] : n \in 1..NPdfs}

InitScanMain ==
    /\ files \in PdfLists
    /\ fn = 1
    /\ pc = "start"
    /\ document = NoDocument
    /\ before = NoDocument
    /\ removed = None
    /\ stdout = <<>>
    /\ log = <<>>
    /\ uncaught = "none"
    /\ args = NoArgs
    /\ InitRevise
    /\ InitPageNumbers
    /\ InitTools

\* queue = Queue(); process.start(); then process.join(timeout) begins.
ProcessStart ==
    /\ pc = "start"
    /\ fn <= Len(files)
    /\ queue' = <<>>
    /\ child' = "running"
    /\ clock' = 0
    /\ pc' = "join"
    /\ UNCHANGED <<files, fn, document, before, removed, stdout, log, uncaught,
                   is_scanned, found_scanned, reviseVars, pageNumberVars,
                   classifyVars>>

\* mp_run in the child: queue.put(retval), or queue.put(type(e).__name__).
mp_run ==
    /\ pc \in {"join", "exitcode"}
    /\ child = "running"
    /\ files[fn] \in {"True", "False", "ValueError"}
    /\ queue' = Append(queue, files[fn])
    /\ log' = IF files[fn] = "ValueError" THEN Append(log, "error") ELSE log
    /\ child' = "put"
    /\ UNCHANGED <<files, fn, pc, document, before, removed, stdout, uncaught,
                   clock, is_scanned, found_scanned, reviseVars, pageNumberVars,
                   classifyVars>>

\* The child ends after mp_run returned.
ChildExit ==
    /\ pc \in {"join", "exitcode"}
    /\ child = "put"
    /\ child' = "exited"
    /\ UNCHANGED <<mainVars, queue, clock, is_scanned, found_scanned, reviseVars,
                   pageNumberVars, classifyVars>>

\* The child dies (a signal, os._exit, a fault of the pdf library) before
\* mp_run reaches queue.put.
ChildCrash ==
    /\ pc \in {"join", "exitcode"}
    /\ child = "running"
    /\ files[fn] = "crash"
    /\ child' = "exited"
    /\ UNCHANGED <<mainVars, queue, clock, is_scanned, found_scanned, reviseVars,
                   pageNumberVars, classifyVars>>

\* One second of process.join(timeout) with the child alive.
Tick ==
    /\ pc = "join"
    /\ child # "exited"
    /\ clock < TimeoutTicks
    /\ clock' = clock + 1
    /\ UNCHANGED <<mainVars, child, queue, is_scanned, found_scanned, reviseVars,
                   pageNumberVars, classifyVars>>

\* process.join(timeout) returns: the child ended or the timeout passed.
JoinReturn ==
    /\ pc = "join"
    /\ child = "exited" \/ clock = TimeoutTicks
    /\ pc' = "exitcode"
    /\ UNCHANGED <<files, fn, document, before, removed, stdout, log, uncaught,
                   reviseVars, pageNumberVars, toolVars>>

\* if process.exitcode is not None
CheckExitcode ==
    /\ pc = "exitcode"
    /\ pc' = IF child = "exited" THEN "get" ELSE "terminate"
    /\ UNCHANGED <<files, fn, document, before, removed, stdout, log, uncaught,
                   reviseVars, pageNumberVars, toolVars>>

\* return queue.get(): blocks until the queue holds an item.
QueueGet ==
    /\ pc = "get"
    /\ queue # <<>>
    /\ is_scanned' = Head(queue)
    /\ queue' = Tail(queue)
    /\ pc' = "report"
    /\ UNCHANGED <<files, fn, document, before, removed, stdout, log, uncaught,
                   child, clock, found_scanned, reviseVars, pageNumberVars,
                   classifyVars>>

\* process.terminate(); return None
Terminate ==
    /\ pc = "terminate"
    /\ child' = "terminated"
    /\ is_scanned' = "None"
    /\ pc' = "report"
    /\ UNCHANGED <<files, fn, document, before, removed, stdout, log, uncaught,
                   queue, clock, found_scanned, reviseVars, pageNumberVars,
                   classifyVars>>

\* The rest of the body of main's for loop.
MainReport ==
    /\ pc = "report"
    /\ IF is_scanned = "None"
       THEN /\ stdout' = Append(stdout, <<"timeout", fn>>)
            /\ log' = Append(log, "error")
            /\ UNCHANGED found_scanned
       ELSE IF is_scanned \notin {"True", "False"}
       THEN /\ stdout' = Append(stdout, <<"ERROR:" \o is_scanned, fn>>)
            /\ UNCHANGED <<log, found_scanned>>
       ELSE /\ found_scanned' = (found_scanned \/ is_scanned = "True")
            /\ stdout' = Append(stdout, <<is_scanned, fn>>)
            /\ UNCHANGED log
    /\ fn' = fn + 1
    /\ pc' = "start"
    /\ UNCHANGED <<files, document, before, removed, uncaught, child, queue,
                   clock, is_scanned, reviseVars, pageNumberVars, classifyVars>>

\* return 0 if found_scanned else 1
ScanExit ==
    /\ pc = "start"
    /\ fn > Len(files)
    /\ removed' = IF found_scanned THEN 0 ELSE 1
    /\ pc' = "done"
    /\ UNCHANGED <<files, fn, document, before, stdout, log, uncaught,
                   reviseVars, pageNumberVars, toolVars>>

NextScan ==
    \/ ProcessStart
    \/ mp_run
    \/ ChildExit
    \/ ChildCrash
    \/ Tick
    \/ JoinReturn
    \/ CheckExitcode
    \/ QueueGet
    \/ Terminate
    \/ MainReport
    \/ ScanExit

SpecScan == InitScanMain /\ [][NextScan]_vars

(***************************************************************************)
(* Claims about scannedpdf.                                                *)
(***************************************************************************)
\* run_with_timeout is in queue.get() and nothing will ever be put.
BlockedInGet == pc = "get" /\ queue = <<>> /\ child = "exited"

\* C11: run_with_timeout returns control to main for every behaviour of
\* the child (normal return, Python exception, hang past the timeout, death
\* before any result is put): it is never left waiting in queue.get() for a
\* child that has ended without putting a result.
C11_AlwaysReturnsControl == ~BlockedInGet

(***************************************************************************)
(* filterpagenumbers.main: load, find the page number lines, remove them   *)
(* if there are enough of them for the pages, print.                       *)
(* args.min_page_number_ratio is in hundredths.                            *)
(***************************************************************************)
\* parse_page_number_line on the texts of the input lines: one part that is
\* a number and other parts of punctuation only, or ValueError.
parse_page_number_line(string) ==
    CASE string = "1" -> [exc |-> "none", number |-> 1, shape |-> "<NUM>"]
      [] string = "2" -> [exc |-> "none", number |-> 2, shape |-> "<NUM>"]
      [] string = "- 2 -" -> [exc |-> "none", number |-> 2, shape |-> "- <NUM> -"]
      [] OTHER -> [exc |-> "ValueError"]

\* PageNumberCandidate.group_key, roundto=10; round() rounds half to even.
group_key(shape, l) ==
    <<shape, l.fonts[1], RoundHalfEven(l.bbox.lly, 10) * 10>>

block_candidates(block) ==
    LET parsed == [i \in 1..Len(block.lines) |->
                      parse_page_number_line(block.lines[i].text)]
        all == [i \in 1..Len(block.lines) |->
                   IF parsed[i].exc = "none"
                   THEN <<PageNumberCandidate(
                            block.page_index, parsed[i].number,
                            group_key(parsed[i].shape, block.lines[i]),
                            block.lines[i].id)>>
                   ELSE <<>>]
    IN  Flatten(all)

page_number_candidates(doc) ==
    Flatten([p \in 1..Len(doc.pages) |->
                Flatten([b \in 1..Len(doc.pages[p].blocks) |->
                            block_candidates(doc.pages[p].blocks[b])])])

\* ratio <= args.min_page_number_ratio in place of <.
ratio_below_or_equal(lines, pages, min_page_number_ratio) ==
    100 * Len(lines) <= min_page_number_ratio * Len(pages)

\* ratio = len(lines)/len(document.pages); ratio < args.min_page_number_ratio
ratio_below(lines, pages, min_page_number_ratio) ==
    100 * Len(lines) < min_page_number_ratio * Len(pages)

MaxNumberedRecords == 4

Line1 == Content(1, <<FontF>>, BoxX, <<>>, 0, "1")
Line2 == Content(2, <<FontF>>, BoxX, <<>>, 0, "2")
Line2Dashes == Content(2, <<FontF>>, BoxY, <<>>, 0, "- 2 -")

NumberedRecords == {PreambleU, PreambleX2, Line1, Line2, Line2Dashes, LineX}

NumberedTexts == SeqsUpTo(NumberedRecords, MaxNumberedRecords)

MinPageNumberRatios == {0, 10, 60, 100}

InitPageFilter ==
    /\ files \in {<<t>> : t \in NumberedTexts}
    /\ InitMain
    /\ args \in {[min_page_number_ratio |-> r] : r \in MinPageNumberRatios}
    /\ InitRevise
    /\ InitPageNumbers
    /\ InitTools

\* lines = find_page_number_lines(document, args), the test of the ratio and
\* document.remove_lines(lines).
MainFilterPageNumbers ==
    /\ pc = "loaded"
    /\ LET cs == page_number_candidates(document)
           r == find_page_number_lines(cs)
       IN  /\ candidates' = cs
           /\ found' = r
           /\ IF ratio_below(r.lines, document.pages, args.min_page_number_ratio)
              THEN /\ log' = Append(log, "no page number sequences found")
                   /\ UNCHANGED <<document, removed>>
              ELSE LET d == Document_remove_lines(document, r.lines)
                   IN  /\ log' = Append(log, "removing")
                       /\ document' = d.obj
                       /\ removed' = d.removed
    /\ before' = document
    /\ pc' = "filtered"
    /\ UNCHANGED <<files, fn, stdout, uncaught, reviseVars, toolVars>>

\* print(document.to_freki())
PageFilterPrint ==
    /\ pc = "filtered"
    /\ PrintDocument

NextPageFilter == MainLoad \/ MainFilterPageNumbers \/ PageFilterPrint \/ MainExit

SpecPageFilter == InitPageFilter /\ [][NextPageFilter]_vars

(***************************************************************************)
(* Claims about filterpagenumbers.main.                                    *)
(***************************************************************************)
\* (number of recovered lines) / (number of pages) >= min_page_number_ratio
RatioMet ==
    100 * Len(found.lines) >= args.min_page_number_ratio * Len(before.pages)

Filtered == pc = "filtered" \/ (pc \in {"load", "done"} /\ stdout # <<>>)

\* C14: filterpagenumbers removes the lines it recovered only if their
\* number divided by the number of pages is at least min_page_number_ratio;
\* otherwise it removes no line and prints the document as loaded.
C14_RemovesOnlyAtRatio ==
    Filtered =>
        /\ RatioMet => LineIds(document) = LineIds(before) \ Range(found.lines)
        /\ ~RatioMet => document = before
        /\ stdout # <<>> =>
              stdout[1].text = Document_to_freki(IF RatioMet THEN document ELSE before)

\* Lines recovered and printed with the rest, their ratio being too low.
C14_Witness ==
    /\ pc = "done"
    /\ found.lines # <<>>
    /\ ~RatioMet
    /\ stdout[1].text = Document_to_freki(before)
    /\ LineIds(document) = LineIds(before)

\* Lines recovered at exactly the minimum ratio, and removed.
C14_WitnessAtRatio ==
    /\ pc = "done"
    /\ found.lines # <<>>
    /\ 100 * Len(found.lines) = args.min_page_number_ratio * Len(before.pages)
    /\ LineIds(document) = LineIds(before) \ Range(found.lines)
    /\ removed = Len(found.lines)

(***************************************************************************)
(* common.categorize_line.  A line is a sequence of characters, each given *)
(* by its class: "l" a lower-case and "U" an upper-case letter of          *)
(* LC_CHARS and UC_CHARS, "d" a digit, "p" a character of                  *)
(* string.punctuation other than "_", "s" a whitespace character, "f" a    *)
(* lower-case letter outside LC_CHARS.  Ratios are in hundredths.          *)
(***************************************************************************)
MIN_NONSPACE_CHARS == 10
MAX_PUNCT_RATIO == 50
MAX_DIGIT_RATIO == 50
MAX_UPPER_RATIO == 25
MAX_FOREIGN_RATIO == 10
MIN_WORDS == 3

CountOf(string, classes) ==
    Cardinality({i \in 1..Len(string) : string[i] \in classes})

nonspace_count(string) == CountOf(string, {"l", "U", "d", "p", "f"})

digit_count(string) == CountOf(string, {"d"})

upper_count(string) == CountOf(string, {"U"})

punct_count(string) == CountOf(string, {"p"})

\* FOREIGN_LETTER_RE: a \w character that is no digit, no "_" and no letter
\* of LC_CHARS or UC_CHARS.
foreign_count(string) == CountOf(string, {"f"})

\* \w of the regular expressions.
WordChar(c) == c \in {"l", "U", "d", "f"}

\* The maximal runs of \w characters: a \b is at each of their two ends
\* and nowhere inside.
WordRuns(string) ==
    {r \in (1..Len(string)) \X (1..Len(string)) :
        /\ r[1] <= r[2]
        /\ \A i \in r[1]..r[2] : WordChar(string[i])
        /\ r[1] = 1 \/ ~WordChar(string[r[1] - 1])
        /\ r[2] = Len(string) \/ ~WordChar(string[r[2] + 1])}

\* CAP_WORD_RE = \b[UC_CHARS]+[LC_CHARS]*\b
num_cap_words(string) ==
    Cardinality({r \in WordRuns(string) :
        \E k \in r[1]..r[2] :
            /\ \A i \in r[1]..k : string[i] = "U"
            /\ \A i \in (k + 1)..r[2] : string[i] = "l"})

\* WORD_RE = \b[LC_CHARS]{3,}\b
num_words(string) ==
    Cardinality({r \in WordRuns(string) :
        /\ r[2] - r[1] + 1 >= 3
        /\ \A i \in r[1]..r[2] : string[i] = "l"})

\* str.strip(): without the whitespace at its two ends.
RECURSIVE lstrip(_)
lstrip(string) ==
    IF string # <<>> /\ Head(string) = "s" THEN lstrip(Tail(string)) ELSE string

RECURSIVE rstrip(_)
rstrip(string) ==
    IF string # <<>> /\ string[Len(string)] = "s"
    THEN rstrip(SubSeq(string, 1, Len(string) - 1))
    ELSE string

strip(string) == rstrip(lstrip(string))

\* count/nonspace_count(line) > ratio: "True", "False", or the exception of
\* the division.
OverRatio(count, string, ratio) ==
    IF nonspace_count(string) = 0 THEN "ZeroDivisionError"
    ELSE IF 100 * count > ratio * nonspace_count(string) THEN "True"
    ELSE "False"

Bool(b) == IF b THEN "True" ELSE "False"

is_blank_line(string) == Bool(strip(string) = <<>>)

\* < in place of <=.
is_short_line_below(string) == Bool(nonspace_count(string) < MIN_NONSPACE_CHARS)

is_short_line(string) == Bool(nonspace_count(string) <= MIN_NONSPACE_CHARS)

is_digit_line(string) == OverRatio(digit_count(string), string, MAX_DIGIT_RATIO)

is_upper_line(string) == OverRatio(upper_count(string), string, MAX_UPPER_RATIO)

is_punct_line(string) == OverRatio(punct_count(string), string, MAX_PUNCT_RATIO)

is_foreign_line(string) == OverRatio(foreign_count(string), string, MAX_FOREIGN_RATIO)

is_cap_word_line(string) ==
    Bool(num_cap_words(string) > Max(MIN_WORDS, 2 * num_words(string)))

is_min_word_line(string) == Bool(num_words(string) < MIN_WORDS)

LINE_CATEGORY_FUNCS ==
    << <<"is_blank_line", "BLANK">>,
       <<"is_short_line", "SHORT">>,
       <<"is_digit_line", "DIGIT">>,
       <<"is_upper_line", "UPPER">>,
       <<"is_punct_line", "PUNCT">>,
       <<"is_foreign_line", "FORGN">>,
       <<"is_cap_word_line", "CAPWD">>,
       <<"is_min_word_line", "MINWD">> >>

\* func(line)
CallFunc(func, string) ==
    CASE func = "is_blank_line" -> is_blank_line(string)
      [] func = "is_short_line" -> is_short_line(string)
      [] func = "is_digit_line" -> is_digit_line(string)
      [] func = "is_upper_line" -> is_upper_line(string)
      [] func = "is_punct_line" -> is_punct_line(string)
      [] func = "is_foreign_line" -> is_foreign_line(string)
      [] func = "is_cap_word_line" -> is_cap_word_line(string)
      [] func = "is_min_word_line" -> is_min_word_line(string)

\* The for loop of categorize_line from the k-th function on; an exception
\* of a function is what the call gives.
RECURSIVE categorize_from(_, _)
categorize_from(string, k) ==
    IF k > Len(LINE_CATEGORY_FUNCS) THEN "PROSE"
    ELSE LET r == CallFunc(LINE_CATEGORY_FUNCS[k][1], string)
         IN  IF r = "True" THEN LINE_CATEGORY_FUNCS[k][2]
             ELSE IF r = "False" THEN categorize_from(string, k + 1)
             ELSE r

categorize_line(string) == categorize_from(string, 1)

is_prose_line(string) == categorize_line(string) = "PROSE"

\* Lines of up to MaxTokens tokens separated by one space, some lines of
\* whitespace, and three lines given by their text.
MaxTokens == 4

Chars(n, c) == [i \in 1..n |-> c]

Tokens ==
    { Chars(5, "l"),             \* quick
      Chars(3, "l"),             \* fox
      <<"l", "l">>,              \* of
      <<"U">> \o Chars(3, "l"),  \* Four
      Chars(4, "U"),             \* FOUR
      Chars(4, "d"),             \* 1234
      Chars(4, "p"),             \* ....
      Chars(4, "f") }            \* four letters outside Latin-1

RECURSIVE JoinTokens(_)
JoinTokens(ts) ==
    IF ts = <<>> THEN <<>>
    ELSE IF Len(ts) = 1 THEN ts[1]
    ELSE ts[1] \o <<"s">> \o JoinTokens(Tail(ts))

\* ""
EmptyLine == <<>>

\* "12345678901234"
DigitsLine == Chars(14, "d")

\* "The quick brown fox jumps."
FoxLine ==
    <<"U", "l", "l", "s">> \o Chars(5, "l") \o <<"s">> \o Chars(5, "l")
        \o <<"s">> \o Chars(3, "l") \o <<"s">> \o Chars(5, "l") \o <<"p">>

InputLines ==
    {JoinTokens(ts) : ts \in SeqsUpTo(Tokens, MaxTokens)}
        \cup {EmptyLine, DigitsLine, FoxLine, Chars(1, "s"), Chars(2, "s"),
              <<"s">> \o Chars(11, "l") \o <<"s">>}

InitCategorize ==
    /\ line \in InputLines
    /\ category = "none"
    /\ files = <<>>
    /\ fn = 1
    /\ pc = "categorize"
    /\ document = NoDocument
    /\ before = NoDocument
    /\ removed = None
    /\ stdout = <<>>
    /\ log = <<>>
    /\ uncaught = "none"
    /\ args = NoArgs
    /\ InitRevise
    /\ InitPageNumbers
    /\ InitScan

CategorizeLine ==
    /\ pc = "categorize"
    /\ category' = categorize_line(line)
    /\ pc' = "categorized"
    /\ UNCHANGED <<files, fn, document, before, removed, stdout, log, uncaught,
                   reviseVars, pageNumberVars, scanVars, line>>

NextCategorize == CategorizeLine

SpecCategorize == InitCategorize /\ [][NextCategorize]_vars

(***************************************************************************)
(* Claims about categorize_line.                                           *)
(***************************************************************************)
\* The category of the first rule of the documented order that matches.
FirstRule(n, digits, upper, punct, foreign, cap_words, words) ==
    IF n = 0 THEN "BLANK"
    ELSE IF n <= 10 THEN "SHORT"
    ELSE IF 2 * digits > n THEN "DIGIT"
    ELSE IF 4 * upper > n THEN "UPPER"
    ELSE IF 2 * punct > n THEN "PUNCT"
    ELSE IF 10 * foreign > n THEN "FORGN"
    ELSE IF cap_words > 3 /\ cap_words > 2 * words THEN "CAPWD"
    ELSE IF words < 3 THEN "MINWD"
    ELSE "PROSE"

\* C15: categorize_line returns the category of the first rule that
\* matches in the order blank, too short (at most 10 non-space characters),
\* digits (over 50%), upper case (over 25%), punctuation (over 50%), foreign
\* (over 10%), capitalized words (more than max(3, 2 x ordinary words)),
\* too few words (under 3), and PROSE when none matches; "" is blank,
\* "12345678901234" is digits, "The quick brown fox jumps." is prose, and no
\* ratio is computed for a line without non-space characters.
C15_FirstMatchingRule ==
    pc = "categorized" =>
        /\ category = FirstRule(nonspace_count(line), digit_count(line),
                                upper_count(line), punct_count(line),
                                foreign_count(line), num_cap_words(line),
                                num_words(line))
        /\ category # "ZeroDivisionError"
        /\ line = EmptyLine => category = "BLANK"
        /\ line = DigitsLine => category = "DIGIT"
        /\ line = FoxLine => category = "PROSE"

\* A line of exactly 10 non-space characters, too short, whose digits would
\* make it a line of digits.
C15_Witness ==
    /\ pc = "categorized"
    /\ nonspace_count(line) = MIN_NONSPACE_CHARS
    /\ 2 * digit_count(line) > nonspace_count(line)
    /\ category = "SHORT"

\* The third example, a line of prose.
C15_WitnessProse == pc = "categorized" /\ line = FoxLine /\ category = "PROSE"

(***************************************************************************)
(* Claims about the blocks that split_page_blocks and join_page_blocks     *)
(* leave.  before is the document as revise_document_blocks received it.   *)
(***************************************************************************)
\* The run on page p made one split and no join.
OneSplit(p) ==
    /\ pc = "revised"
    /\ join_count = 0
    /\ p \in 1..Len(before.pages)
    /\ Len(document.pages[p].blocks) = Len(before.pages[p].blocks) + 1

\* The position, in the page as it was, of the block that was split.
SplitAt(p) ==
    CHOOSE k \in 1..Len(before.pages[p].blocks) :
        /\ document.pages[p].blocks[k] # before.pages[p].blocks[k]
        /\ \A j \in 1..(k - 1) :
              document.pages[p].blocks[j] = before.pages[p].blocks[j]

\* What a split leaves of the block was in the blocks top and bottom, but
\* for the end_line of bottom.
SplitOf(was, top, bottom, gap) ==
    /\ top.lines # <<>>
    /\ bottom.lines # <<>>
    /\ [l \in 1..Len(was.lines) |-> was.lines[l].id]
           = [l \in 1..Len(top.lines) |-> top.lines[l].id]
                 \o [l \in 1..Len(bottom.lines) |-> bottom.lines[l].id]
    /\ \A l \in 1..Len(top.lines) : top.lines[l] = was.lines[l]
    /\ \A l \in 1..Len(bottom.lines) :
          [bottom.lines[l] EXCEPT !.block = was.obj] = was.lines[Len(top.lines) + l]
    /\ can_split(top.lines[Len(top.lines)], bottom.lines[1], gap)
    /\ top.id = Append(was.id, ".1")
    /\ top.label = Append(was.label, "t")
    /\ top.start_line = was.start_line
    /\ top.end_line = top.lines[Len(top.lines)].line_num
    /\ bottom.id = Append(was.id, ".2")
    /\ bottom.label = Append(was.label, "b")
    /\ bottom.start_line = bottom.lines[1].line_num

\* The blocks of the page around the split are where they were.
SplitInPlace(p, k) ==
    /\ \A j \in 1..(k - 1) : document.pages[p].blocks[j] = before.pages[p].blocks[j]
    /\ \A j \in (k + 1)..Len(before.pages[p].blocks) :
          document.pages[p].blocks[j + 1] = before.pages[p].blocks[j]

\* C16 as stated: a split leaves the lines before the split in the block,
\* with id suffixed .1, label suffixed t and end_line the number of prev,
\* and inserts right after it a new block with id suffixed .2, label
\* suffixed b, start_line the number of the split line and end_line the
\* end_line the block had before the split.
C16_NewBlockEndsAtOriginalEnd ==
    \A p \in 1..Len(before.pages) :
        OneSplit(p) =>
            LET k == SplitAt(p)
                was == before.pages[p].blocks[k]
                top == document.pages[p].blocks[k]
                bottom == document.pages[p].blocks[k + 1]
            IN  /\ SplitInPlace(p, k)
                /\ SplitOf(was, top, bottom, args.min_split_relative_gap)
                /\ bottom.end_line = was.end_line

\* C16 amended: as stated, but for the end_line of the new block, which is
\* the line number of the last line of the block that was split.
C16_NewBlockEndsAtLastLine ==
    \A p \in 1..Len(before.pages) :
        OneSplit(p) =>
            LET k == SplitAt(p)
                was == before.pages[p].blocks[k]
                top == document.pages[p].blocks[k]
                bottom == document.pages[p].blocks[k + 1]
            IN  /\ SplitInPlace(p, k)
                /\ SplitOf(was, top, bottom, args.min_split_relative_gap)
                /\ bottom.end_line = was.lines[Len(was.lines)].line_num

\* A split of a block whose end_line was not the number of its last line,
\* between two blocks that stay.
C16_Witness ==
    \E p \in 1..Len(before.pages) :
        /\ OneSplit(p)
        /\ before.pages[p].blocks[SplitAt(p)].end_line
              # document.pages[p].blocks[SplitAt(p) + 1].end_line

\* A split on a page with another block, which stays as it was.
C16_WitnessInPlace ==
    \E p \in 1..Len(before.pages) :
        /\ OneSplit(p)
        /\ Len(before.pages[p].blocks) > 1

\* start_line and end_line of the block cover the numbers of its lines.
Covers(block) ==
    \A i \in 1..Len(block.lines) :
        /\ block.start_line <= block.lines[i].line_num
        /\ block.lines[i].line_num <= block.end_line

AllCover(doc) == \A pb \in BlockPositions(doc) : Covers(BlockAt(doc, pb))

\* C17: after join_page_blocks has merged a block into an earlier one, the
\* start_line and end_line of the earlier block cover the line numbers of
\* all the lines it holds.
C17_JoinedBlockCoversLines ==
    (join_count > 0 /\ AllCover(before)) => AllCover(document)

\* The blocks of a document, by value.
BlocksOf(doc) == {BlockAt(doc, pb) : pb \in BlockPositions(doc)}

\* C18: every block that a join or a split has made has the union of the
\* bboxes of its lines as bbox, also where the preamble of a block gave a
\* bbox larger than the union of its lines.
C18_RevisedBBoxIsUnion ==
    pc \in {"split", "join", "revised"} =>
        \A pb \in BlockPositions(document) :
            LET block == BlockAt(document, pb)
            IN  (block \notin BlocksOf(before) /\ block.lines # <<>>)
                    => block.bbox = LinesUnion(block.lines)

ZeroSize(bbox) == bbox.llx = bbox.urx /\ bbox.lly = bbox.ury

AllZeroSize(doc) ==
    \A pb \in BlockPositions(doc) :
        /\ ZeroSize(BlockAt(doc, pb).bbox)
        /\ \A i \in 1..Len(BlockAt(doc, pb).lines) :
              ZeroSize(BlockAt(doc, pb).lines[i].bbox)

\* C19: on a page whose line and block bboxes are all of zero size no split
\* and no join is made, whatever the fonts and left margins.
C19_ZeroSizeNoSplitNoJoin ==
    (pc = "revised" /\ before.pages # <<>> /\ AllZeroSize(before))
        => /\ returned[Len(returned)] = <<0, 0>>
           /\ document = before

\* The characters of the texts of the input lines, by class.
TextChars(text) ==
    CASE text \in {"x", "y"} -> <<"l">>
      [] text \in {"1", "2"} -> <<"d">>
      [] text = "- 2 -" -> <<"p", "s", "d", "s", "p">>

IsProse(l) == is_prose_line(TextChars(l.text))

\* The pair of lines[i - 1] and lines[i] adds a gap to gap_count.
Contributes(lines, i) == Len(page_gaps(lines, i)) > Len(page_gaps(lines, i + 1))

\* C20: the calibration of the join gap counts only the gaps between
\* consecutive compatible lines that are both prose for categorize_line; a
\* pair with a line that is not prose adds nothing to the gap histogram.
C20_OnlyProseGapsCounted ==
    Calibrated =>
        \A p \in 1..Len(before.pages) :
            \A i \in 2..Len(PageLines(before.pages[p])) :
                Contributes(PageLines(before.pages[p]), i)
                    => /\ IsProse(PageLines(before.pages[p])[i - 1])
                       /\ IsProse(PageLines(before.pages[p])[i])


(***************************************************************************)
(* Claims about the calibration of the join threshold.                     *)
(***************************************************************************)
\* The least threshold the calibration can give for a split threshold: the
\* default and half the rounding step, clamped below the split threshold.
ClampedDefault(min_split_relative_gap) ==
    Min(DEFAULT_JOIN_GAP + HalfRound, min_split_relative_gap - HalfRound)

\* C21 as stated: the join threshold that revise_document_blocks calibrates
\* is never below the default 0.8, whatever the split threshold, and with
\* fewer than 10 gaps observed the estimate is the default.
C21_NeverBelowDefault ==
    Calibrated =>
        /\ args.max_join_relative_gap >= DEFAULT_JOIN_GAP
        /\ Len(document_gaps(before)) < MinGapCount =>
              most_common_prose_line_gap(before) = DEFAULT_JOIN_GAP

\* C21 amended: the estimate of most_common_prose_line_gap is never below
\* the default 0.8 and is the default with fewer than 10 gaps observed; the
\* join threshold in effect is never below the smaller of 0.85 and the split
\* threshold less 0.05, and is that value with fewer than 10 gaps observed.
C21_NotBelowClampedDefault ==
    Calibrated =>
        \A estimate \in {most_common_prose_line_gap(before)} :
            /\ estimate >= DEFAULT_JOIN_GAP
            /\ args.max_join_relative_gap
                   >= ClampedDefault(args.min_split_relative_gap)
            /\ Len(document_gaps(before)) < MinGapCount =>
                  /\ estimate = DEFAULT_JOIN_GAP
                  /\ args.max_join_relative_gap
                         = ClampedDefault(args.min_split_relative_gap)

\* Ten gaps or more were observed, the most common of them below the
\* default, and the threshold in effect is the default and half a step.
C21_Witness ==
    /\ Calibrated
    /\ Len(document_gaps(before)) >= MinGapCount
    /\ MostCommon(document_gaps(before)) * 10 < DEFAULT_JOIN_GAP
    /\ args.max_join_relative_gap = DEFAULT_JOIN_GAP + HalfRound

\* Fewer than ten gaps were observed and the split threshold is so low that
\* the threshold in effect is below the default.
C21_WitnessBelowDefault ==
    /\ Calibrated
    /\ Len(document_gaps(before)) < MinGapCount
    /\ args.max_join_relative_gap < DEFAULT_JOIN_GAP


(***************************************************************************)
(* revise_document_blocks pass by pass: a step is one pass of the while    *)
(* loop of split_page_blocks or of join_page_blocks, or the return of one  *)
(* of the two.  The pages have lines of one font and margin at four        *)
(* heights, in any order and any division into blocks, and the pages of    *)
(* EdgeTexts; the thresholds include join thresholds at and above the      *)
(* split threshold.                                                        *)
(***************************************************************************)
MaxPassLines == 3

PassLetters == {<<60, 1000, 0>>, <<48, 1000, 0>>, <<30, 1000, 0>>, <<10, 1000, 0>>}

PassTexts ==
    UNION {{PageText([i \in 1..Len(ls) |-> ReviseLine(ls[i], i)], cuts, 1, 1) :
                cuts \in SUBSET (1..(Len(ls) - 1))} :
           ls \in SeqsUpTo(PassLetters, MaxPassLines) \ {<<>>}}

PassArgs ==
    ArgsSet \cup
        {[min_split_relative_gap |-> DEFAULT_SPLIT_GAP,
          max_join_relative_gap |-> DEFAULT_SPLIT_GAP],
         [min_split_relative_gap |-> 0, max_join_relative_gap |-> 300]}

InitPasses ==
    /\ files \in {<<t>> : t \in PassTexts \cup EdgeTexts}
    /\ InitMain
    /\ args \in PassArgs
    /\ InitRevise
    /\ InitPageNumbers
    /\ InitTools

\* revise_document_blocks is called once for the document loaded.
ReviseCall ==
    /\ pc = "loaded"
    /\ ReviseStart

\* One pass of "while True" of split_page_blocks: the for loop over the
\* blocks, then split_count += 1 or the break.
SplitLoopPass ==
    /\ pc = "split"
    /\ page <= Len(document.pages)
    /\ LET r == split_pass(document.pages[page].blocks, 1,
                           args.min_split_relative_gap, FALSE)
       IN  IF r.revised
           THEN /\ document' = [document EXCEPT !.pages[page].blocks = r.blocks]
                /\ split_count' = CountPass(split_count, TRUE)
                /\ pc' = "split"
           ELSE /\ pc' = "split_returned"
                /\ UNCHANGED <<document, split_count>>
    /\ UNCHANGED <<files, fn, before, removed, stdout, log, uncaught, args,
                   stored_gap, page, join_count, returned, pageNumberVars, toolVars>>

\* split_page_blocks has returned and join_page_blocks is called.
SplitLoopReturn ==
    /\ pc = "split_returned"
    /\ pc' = "join"
    /\ UNCHANGED <<files, fn, document, before, removed, stdout, log, uncaught,
                   reviseVars, pageNumberVars, toolVars>>

\* One pass of "while True" of join_page_blocks.
JoinLoopPass ==
    /\ pc = "join"
    /\ LET i == FirstJoin(document.pages[page].blocks, args.max_join_relative_gap)
       IN  IF i # 0
           THEN /\ document' = [document EXCEPT !.pages[page].blocks =
                                    JoinBlocks(document.pages[page].blocks, i)]
                /\ join_count' = join_count + 1
                /\ pc' = "join"
           ELSE /\ pc' = "join_returned"
                /\ UNCHANGED <<document, join_count>>
    /\ UNCHANGED <<files, fn, before, removed, stdout, log, uncaught, args,
                   stored_gap, page, split_count, returned, pageNumberVars, toolVars>>

\* join_page_blocks has returned; the for loop goes to the next page.
JoinLoopReturn ==
    /\ pc = "join_returned"
    /\ page' = page + 1
    /\ pc' = "split"
    /\ UNCHANGED <<files, fn, document, before, removed, stdout, log, uncaught,
                   args, stored_gap, split_count, join_count, returned,
                   pageNumberVars, toolVars>>

NextPasses ==
    \/ MainLoad
    \/ ReviseCall
    \/ SplitLoopPass
    \/ SplitLoopReturn
    \/ JoinLoopPass
    \/ JoinLoopReturn
    \/ ReviseReturn
    \/ RevisePrint
    \/ MainExit

\* The one thread of main keeps running while it has a step to take.
SpecPasses == InitPasses /\ [][NextPasses]_vars /\ WF_vars(NextPasses)

(***************************************************************************)
(* Claims about the loops of split_page_blocks and join_page_blocks.       *)
(***************************************************************************)
\* The i with can_join holding for blocks i and i + 1 of page q.
JoinablePairs(doc, q) ==
    {i \in 1..(Len(doc.pages[q].blocks) - 1) :
        can_join(doc.pages[q].blocks[i], doc.pages[q].blocks[i + 1],
                 args.max_join_relative_gap)}

\* The adjacent pairs of lines within the blocks of page q: what a split
\* can still divide.
AdjacentPairs(doc, q) ==
    SumSeq([b \in 1..Len(doc.pages[q].blocks) |->
               Max(Len(doc.pages[q].blocks[b].lines) - 1, 0)])

\* C22: split_page_blocks and join_page_blocks each return, for every page
\* and every pair of thresholds: a pass of split_page_blocks that does not
\* return leaves fewer adjacent pairs of lines within blocks, a pass of
\* join_page_blocks that does not return leaves fewer blocks, and neither
\* number goes below zero.  When split_page_blocks returns no block of the
\* page has two adjacent lines that can_split holds for, and when
\* join_page_blocks returns no two adjacent blocks satisfy can_join.
C22_LoopsReturnAtFixpoints ==
    /\ [](pc = "split_returned" => SplittablePairs(document, page) = {})
    /\ [](pc = "join_returned" => JoinablePairs(document, page) = {})
    /\ [][(pc = "split" /\ pc' = "split" /\ page' = page) =>
             AdjacentPairs(document', page) < AdjacentPairs(document, page)]_vars
    /\ [][(pc = "join" /\ pc' = "join") =>
             Len(document'.pages[page].blocks) < Len(document.pages[page].blocks)]_vars

\* join_page_blocks has returned after both loops made a pass that revised
\* the page, under a join threshold that is not below the split threshold.
C22_Witness ==
    /\ pc = "join_returned"
    /\ split_count > 0
    /\ join_count > 0
    /\ args.max_join_relative_gap >= args.min_split_relative_gap


(***************************************************************************)
(* Claims about the lines and the counts of a revision.                    *)
(***************************************************************************)
\* revise_document_blocks has been called and before is the document as it
\* was at the call.
InRevision == pc \in {"split", "join", "revised"}

\* The Block objects of a page.
BlockObjs(pg) == [b \in 1..Len(pg.blocks) |-> pg.blocks[b].obj]

\* C28: whatever split_page_blocks and join_page_blocks have done since the
\* call, the Lines of each page, over its blocks in order, are the Lines the
\* page had, in the same order and with nothing but their block attribute
\* changed; every Line is in one Block of the page only and its block
\* attribute is that Block; and no Block is empty that was not already.
C28_RevisionConservesLines ==
    InRevision =>
        \A p \in 1..Len(document.pages) :
          \A now \in {PageLines(document.pages[p])}, was \in {PageLines(before.pages[p])} :
            LET blocks == document.pages[p].blocks
            IN  /\ Len(now) = Len(was)
                /\ \A i \in 1..Len(now) :
                      [now[i] EXCEPT !.block = was[i].block] = was[i]
                /\ \A i, j \in 1..Len(now) : i # j => now[i].id # now[j].id
                /\ \A b, c \in 1..Len(blocks) : b # c => blocks[b].obj # blocks[c].obj
                /\ \A b \in 1..Len(blocks) :
                      /\ \A l \in 1..Len(blocks[b].lines) :
                            blocks[b].lines[l].block = blocks[b].obj
                      /\ blocks[b].lines = <<>> =>
                            \E c \in 1..Len(before.pages[p].blocks) :
                                /\ before.pages[p].blocks[c].obj = blocks[b].obj
                                /\ before.pages[p].blocks[c].lines = <<>>

\* A call has returned that split a block and joined two, and the page has
\* a Block it did not have, holding a Line that was in another Block.
C28_Witness ==
    /\ pc = "revised"
    /\ split_count > 0
    /\ join_count > 0
    /\ \E b \in 1..Len(document.pages[1].blocks) :
          /\ \A c \in 1..Len(before.pages[1].blocks) :
                before.pages[1].blocks[c].obj # document.pages[1].blocks[b].obj
          /\ document.pages[1].blocks[b].lines # <<>>


\* C29: the count split_page_blocks adds to split_count is the number of
\* Blocks it inserted into the page, the count join_page_blocks adds to
\* join_count is the number of Blocks it dropped from the page, and
\* revise_document_blocks returns the two sums.
C29_CountsAreSplitsAndJoins ==
    /\ [][(pc = "split" /\ pc' = "join") =>
             split_count' - split_count
                 = Len(document'.pages[page].blocks) - Len(document.pages[page].blocks)]_vars
    /\ [][(pc = "join" /\ pc' = "split") =>
             join_count' - join_count
                 = Len(document.pages[page].blocks) - Len(document'.pages[page].blocks)]_vars
    /\ [](pc = "revised" => returned[Len(returned)] = <<split_count, join_count>>)

\* The part of C29 about join_page_blocks and the values returned.
C29_JoinCountIsBlocksDropped ==
    /\ [][(pc = "join" /\ pc' = "split") =>
             join_count' - join_count
                 = Len(document.pages[page].blocks) - Len(document'.pages[page].blocks)]_vars
    /\ [](pc = "revised" => returned[Len(returned)] = <<split_count, join_count>>)


(***************************************************************************)
(* longest_increasing_subsequence applied to a list of candidates of       *)
(* either class.  The Line of a candidate is its position in the list.     *)
(***************************************************************************)
MaxLisLen == 4

LisInputs ==
    UNION {{[i \in 1..Len(ps) |-> PageNumberCandidate(ps[i][1], ps[i][2], "a", i)],
            [i \in 1..Len(ps) |-> TocLineCandidate(ps[i][1], ps[i][2], i)]} :
           ps \in SeqsUpTo(CandidatePairs, MaxLisLen)}

InitLis ==
    /\ candidates \in LisInputs
    /\ found = NotFound
    /\ files = <<>>
    /\ fn = 1
    /\ pc = "lis"
    /\ document = NoDocument
    /\ before = NoDocument
    /\ removed = None
    /\ stdout = <<>>
    /\ log = <<>>
    /\ uncaught = "none"
    /\ args = NoArgs
    /\ InitRevise
    /\ InitTools

LongestIncreasingSubsequence ==
    /\ pc = "lis"
    /\ found' = [NotFound EXCEPT !.lis = longest_increasing_subsequence(candidates)]
    /\ pc' = "lis_returned"
    /\ UNCHANGED <<files, fn, document, before, removed, stdout, log, uncaught,
                   reviseVars, candidates, toolVars>>

NextLis == LongestIncreasingSubsequence

SpecLis == InitLis /\ [][NextLis]_vars

\* C27: for either ordering of the candidates, the list that
\* longest_increasing_subsequence returns is made of elements of the input
\* at strictly increasing positions, and each element is < its successor in
\* the ordering of the candidates' class.
C27_ResultIsOrderedSubsequence ==
    pc = "lis_returned" =>
        /\ \A i \in 1..Len(found.lis) :
              /\ found.lis[i].line \in 1..Len(candidates)
              /\ found.lis[i] = candidates[found.lis[i].line]
        /\ \A i \in 1..(Len(found.lis) - 1) :
              /\ found.lis[i].line < found.lis[i + 1].line
              /\ Lt(found.lis[i], found.lis[i + 1])

\* TOC candidates: a result of three elements, two of them equal in page
\* and number, that leaves an element of the input out.
C27_Witness ==
    /\ pc = "lis_returned"
    /\ Len(found.lis) = 3
    /\ Len(candidates) = 4
    /\ found.lis[1].cls = "TocLineCandidate"
    /\ \E i \in 1..2 : Pair(found.lis[i]) = Pair(found.lis[i + 1])

\* Page number candidates: a result of three elements out of four.
C27_WitnessStrict ==
    /\ pc = "lis_returned"
    /\ Len(found.lis) = 3
    /\ Len(candidates) = 4
    /\ found.lis[1].cls = "PageNumberCandidate"


(***************************************************************************)
(* filterencoding.main: load, find the lines of blocks with encoding       *)
(* errors, remove them, print.  The text of a line is the sequence of its  *)
(* characters; REPLACEMENT is the character U+FFFD.                        *)
(***************************************************************************)
REPLACEMENT == "U+FFFD"

\* The values of block after "for block in page.blocks" for each page and
\* of found_error, and the lines added to to_remove for the page.
page_encoding_errors(pg) ==
    LET found_error == \E b \in 1..Len(pg.blocks) :
                           \E l \in 1..Len(pg.blocks[b].lines) :
                               REPLACEMENT \in Range(pg.blocks[b].lines[l].text)
        block == pg.blocks[Len(pg.blocks)]
    IN  IF found_error THEN block.lines ELSE <<>>

\* find_encoding_errors: the Lines to remove, or the exception of
\* removed_chars / total_chars.
find_encoding_errors(doc) ==
    LET to_remove == Flatten([p \in 1..Len(doc.pages) |->
                                  page_encoding_errors(doc.pages[p])])
        total_chars == SumSeq([p \in 1..Len(doc.pages) |->
                                  SumSeq([l \in 1..Len(PageLines(doc.pages[p])) |->
                                             Len(PageLines(doc.pages[p])[l].text)])])
    IN  IF total_chars = 0 THEN [exc |-> "ZeroDivisionError"]
        ELSE [exc |-> "none", val |-> [l \in 1..Len(to_remove) |-> to_remove[l].id]]

MaxEncodingLines == 3

EncodingStrings == {<<>>, <<"a", "b">>, <<"a", REPLACEMENT>>}

EncodingLine(string, n) ==
    Content(n, <<FontF>>, <<0, 100 - 10 * n, 50, 110 - 10 * n>>, <<>>, 0, string)

\* Pages of up to MaxEncodingLines lines in any division into blocks.
EncodingTexts ==
    UNION {{PageText([i \in 1..Len(ss) |-> EncodingLine(ss[i], i)], cuts, 1, 1) :
                cuts \in SUBSET (1..(Len(ss) - 1))} :
           ss \in SeqsUpTo(EncodingStrings, MaxEncodingLines) \ {<<>>}}

InitEncoding ==
    /\ files \in {<<t>> : t \in EncodingTexts}
    /\ InitMain
    /\ args = NoArgs
    /\ InitRevise
    /\ InitPageNumbers
    /\ InitTools

\* lines = find_encoding_errors(document, args); document.remove_lines(lines)
MainFilterEncoding ==
    /\ pc = "loaded"
    /\ LET r == find_encoding_errors(document)
       IN  IF r.exc # "none"
           THEN /\ uncaught' = r.exc
                /\ pc' = "crashed"
                /\ UNCHANGED <<document, removed, found>>
           ELSE LET d == Document_remove_lines(document, r.val)
                IN  /\ found' = [NotFound EXCEPT !.lines = r.val]
                    /\ document' = d.obj
                    /\ removed' = d.removed
                    /\ pc' = "filtered"
                    /\ UNCHANGED uncaught
    /\ before' = document
    /\ UNCHANGED <<files, fn, stdout, log, reviseVars, candidates, toolVars>>

NextEncoding == MainLoad \/ MainFilterEncoding \/ PageFilterPrint \/ MainExit

SpecEncoding == InitEncoding /\ [][NextEncoding]_vars

\* The Lines of the blocks of doc that have a Line with U+FFFD.
LinesOfBlocksWithErrors(doc) ==
    UNION {UNION {{l.id : l \in Range(doc.pages[p].blocks[b].lines)} :
                  b \in {c \in 1..Len(doc.pages[p].blocks) :
                            \E l \in Range(doc.pages[p].blocks[c].lines) :
                                REPLACEMENT \in Range(l.text)}} :
           p \in 1..Len(doc.pages)}

\* C26: find_encoding_errors returns all the Lines of every Block that has
\* a Line with the character U+FFFD and no Line of any other Block, however
\* many blocks the pages have.
C26_LinesOfBlocksWithErrors ==
    pc = "filtered" => Range(found.lines) = LinesOfBlocksWithErrors(before)

(***************************************************************************)
(* filtertoc: the candidate lines of the table of contents, the page range *)
(* with the longest increasing subsequence and the lines between its first *)
(* and last candidate.                                                     *)
(* args.relative_toc_location is a fraction <<numerator, denominator>>.    *)
(***************************************************************************)
\* The texts of the input lines.  number is the group of TOC_LINE_RE as an
\* integer, None where TOC_LINE_RE does not match or
\* REJECT_TOC_LINE_START_RE matches the start; first is the first character
\* of text.strip().lower(); section_word tells whether that text contains
\* one of FIRST_SECTION_WORDS; chars are the classes of its characters.
TocText(string) ==
    LET methods == <<"U">> \o Chars(6, "l")
        introduction == <<"U">> \o Chars(11, "l")
    IN  CASE string = "Methods 1" ->
               [number |-> 1, first |-> "m", section_word |-> FALSE,
                chars |-> methods \o <<"s", "d">>]
          [] string = "Methods 3" ->
               [number |-> 3, first |-> "m", section_word |-> FALSE,
                chars |-> methods \o <<"s", "d">>]
          [] string = "Methods 4" ->
               [number |-> 4, first |-> "m", section_word |-> FALSE,
                chars |-> methods \o <<"s", "d">>]
          [] string = "Methods 5" ->
               [number |-> 5, first |-> "m", section_word |-> FALSE,
                chars |-> methods \o <<"s", "d">>]
          [] string = "Introduction 2" ->
               [number |-> 2, first |-> "i", section_word |-> TRUE,
                chars |-> introduction \o <<"s", "d">>]
          [] string = "2 Introduction 3" ->
               [number |-> 3, first |-> "2", section_word |-> TRUE,
                chars |-> <<"d", "s">> \o introduction \o <<"s", "d">>]
          [] string = "1 Scope 4" ->
               [number |-> 4, first |-> "1", section_word |-> FALSE,
                chars |-> <<"d", "s", "U">> \o Chars(4, "l") \o <<"s", "d">>]
          [] string = "see the methods on page 3" ->
               [number |-> 3, first |-> "s", section_word |-> FALSE,
                chars |-> JoinTokens(<<Chars(3, "l"), Chars(3, "l"), Chars(7, "l"),
                                       Chars(2, "l"), Chars(4, "l"), <<"d">>>>)]
          [] string = "Methods-3" ->
               [number |-> None, first |-> "m", section_word |-> FALSE,
                chars |-> methods \o <<"p", "d">>]
          [] OTHER ->      \* "x"
               [number |-> None, first |-> "x", section_word |-> FALSE,
                chars |-> <<"l">>]

parse_toc_line(string) ==
    IF TocText(string).number = None THEN [exc |-> "ValueError"]
    ELSE [exc |-> "none", number |-> TocText(string).number]

\* The candidates of one block.
toc_block_candidates(block) ==
    Flatten([l \in 1..Len(block.lines) |->
                IF parse_toc_line(block.lines[l].text).exc = "none"
                THEN <<TocLineCandidate(block.page_index,
                                        parse_toc_line(block.lines[l].text).number,
                                        block.lines[l])>>
                ELSE <<>>])

\* int(len(document.pages) * args.relative_toc_location)
last_toc_page(doc, location) == (Len(doc.pages) * location[1]) \div location[2]

toc_candidates(doc, options) ==
    LET last == Min(last_toc_page(doc, options.relative_toc_location), Len(doc.pages))
    IN  Flatten([p \in 1..last |->
                    Flatten([b \in 1..Len(doc.pages[p].blocks) |->
                                toc_block_candidates(doc.pages[p].blocks[b])])])

\* lines_between from the k-th Line of the document on.
RECURSIVE lines_between_from(_, _, _, _, _, _)
lines_between_from(all, k, first, last, lines, first_seen) ==
    IF k > Len(all) THEN [exc |-> "ValueError", what |-> "last"]
    ELSE LET seen == first_seen \/ all[k].id = first.id
             upto == IF seen THEN Append(lines, all[k]) ELSE lines
         IN  IF all[k].id = last.id
             THEN IF seen THEN [exc |-> "none", val |-> upto]
                  ELSE [exc |-> "ValueError", what |-> "first"]
             ELSE lines_between_from(all, k + 1, first, last, upto, seen)

lines_between(doc, first, last) ==
    lines_between_from(Flatten([p \in 1..Len(doc.pages) |-> PageLines(doc.pages[p])]),
                       1, first, last, <<>>, FALSE)

possible_toc_sequence(doc, seq) ==
    /\ Len(seq) >= 2
    /\ seq[Len(seq)].number - seq[1].number <= Len(doc.pages)

RECURSIVE trim_candidates(_, _)
trim_candidates(doc, cands) ==
    IF possible_toc_sequence(doc, cands) THEN cands
    ELSE IF Len(cands) < 2 THEN <<>>
    ELSE trim_candidates(doc, SubSeq(cands, 1, Len(cands) - 1))

\* The test of the section words made before the test of the digits.
includes_toc_start_words_first(cands) ==
    IF cands = <<>> THEN FALSE
    ELSE IF cands[1].number = 1 THEN TRUE
    ELSE IF TocText(cands[1].line.text).first = "1" THEN TRUE
    ELSE IF TocText(cands[1].line.text).section_word THEN TRUE
    ELSE FALSE

includes_toc_start(cands) ==
    IF cands = <<>> THEN FALSE
    ELSE IF cands[1].number = 1 THEN TRUE
    ELSE IF TocText(cands[1].line.text).first = "1" THEN TRUE
    ELSE IF TocText(cands[1].line.text).first
                \in {"2", "3", "4", "5", "6", "7", "8", "9"} THEN FALSE
    ELSE IF TocText(cands[1].line.text).section_word THEN TRUE
    ELSE FALSE

\* The keys of candidates_by_page in insertion order.
RECURSIVE page_keys(_, _)
page_keys(cands, keys) ==
    IF cands = <<>> THEN keys
    ELSE IF Head(cands).page_index \in Range(keys)
    THEN page_keys(Tail(cands), keys)
    ELSE page_keys(Tail(cands), Append(keys, Head(cands).page_index))

best_candidates_for_page_range(doc, cands, start_page, end_page) ==
    LET range_candidates ==
            Flatten([k \in 1..(end_page + 1 - start_page) |->
                        SelectSeq(cands, LAMBDA c : c.page_index = start_page + k - 1)])
    IN  trim_candidates(doc, longest_increasing_subsequence(range_candidates))

\* max(lis_by_page, key=...): the first key with the longest sequence.
max_lis_page(doc, cands) ==
    LET keys == page_keys(cands, <<>>)
        len(k) == Len(best_candidates_for_page_range(doc, cands, keys[k], keys[k]))
        k == CHOOSE k \in 1..Len(keys) :
                 /\ \A j \in 1..Len(keys) : len(j) <= len(k)
                 /\ \A j \in 1..(k - 1) : len(j) < len(k)
    IN  keys[k]

\* The loop "while start_page > first_page"; st holds start_page, end_page,
\* best_seq and the steps taken.
RECURSIVE expand_left(_, _, _, _)
expand_left(doc, cands, st, first_page) ==
    IF st.start_page > first_page
    THEN IF includes_toc_start(st.best_seq)
         THEN [st EXCEPT !.steps = Append(@, [step |-> "toc start",
                                               start_page |-> st.start_page,
                                               end_page |-> st.end_page,
                                               was |-> Len(st.best_seq),
                                               len |-> Len(st.best_seq)])]
         ELSE LET extended == best_candidates_for_page_range(
                                  doc, cands, st.start_page - 1, st.end_page)
              IN  IF Len(extended) < Len(st.best_seq) + 2 THEN st
                  ELSE expand_left(doc, cands,
                           [st EXCEPT !.start_page = @ - 1,
                                      !.best_seq = extended,
                                      !.steps = Append(@, [step |-> "left",
                                                    start_page |-> st.start_page - 1,
                                                    end_page |-> st.end_page,
                                                    was |-> Len(st.best_seq),
                                                    len |-> Len(extended)])],
                           first_page)
    ELSE st

\* The loop "while end_page < last_page".
RECURSIVE expand_right(_, _, _, _)
expand_right(doc, cands, st, last_page) ==
    IF st.end_page < last_page
    THEN LET extended == best_candidates_for_page_range(
                             doc, cands, st.start_page, st.end_page + 1)
         IN  IF Len(extended) < Len(st.best_seq) + 2 THEN st
             ELSE expand_right(doc, cands,
                      [st EXCEPT !.end_page = @ + 1,
                                 !.best_seq = extended,
                                 !.steps = Append(@, [step |-> "right",
                                               start_page |-> st.start_page,
                                               end_page |-> st.end_page + 1,
                                               was |-> Len(st.best_seq),
                                               len |-> Len(extended)])],
                      last_page)
    ELSE st

NoToc == [exc |-> "none", lines |-> <<>>, logged |-> "none", toc_page |-> None,
          start_page |-> None, end_page |-> None, best_seq |-> <<>>,
          steps |-> <<>>]

\* The element of a set of one element: The({F(x) : x \in {e}}) is F(e)
\* with e evaluated once.
The(S) == CHOOSE x \in S : TRUE

\* The test of line_ratio on the lines between the first and the last
\* candidate, or the exception of lines_between.
toc_lines_checked(expanded, toc_range_lines) ==
    IF toc_range_lines.exc # "none"
    THEN [expanded EXCEPT !.exc = toc_range_lines.exc,
                          !.logged = toc_range_lines.what]
    ELSE IF 5 * Len(expanded.best_seq) < Len(toc_range_lines.val)
    THEN [expanded EXCEPT !.logged = "rejecting low TOC line/TOC span ratio"]
    ELSE IF 2 * Len(expanded.best_seq) < Len(toc_range_lines.val)
    THEN [expanded EXCEPT !.lines = toc_range_lines.val,
                          !.logged = "low TOC line/TOC span ratio"]
    ELSE [expanded EXCEPT !.lines = toc_range_lines.val]

\* find_toc_lines from "pick lines between the first and last"; st holds
\* the values at the end of the two loops.
toc_range_lines_of(doc, toc_page, st) ==
    toc_lines_checked([NoToc EXCEPT !.toc_page = toc_page,
                                    !.start_page = st.start_page,
                                    !.end_page = st.end_page,
                                    !.best_seq = st.best_seq,
                                    !.steps = st.steps],
                      lines_between(doc, st.best_seq[1].line,
                                    st.best_seq[Len(st.best_seq)].line))

\* find_toc_lines from "if len(lis_by_page[toc_page]) < 2".
expand_pages(doc, cands, toc_page, best_seq) ==
    IF Len(best_seq) < 2 THEN [NoToc EXCEPT !.toc_page = toc_page]
    ELSE The({toc_range_lines_of(doc, toc_page, st) :
              st \in {expand_right(doc, cands,
                          expand_left(doc, cands,
                                      [start_page |-> toc_page, end_page |-> toc_page,
                                       best_seq |-> best_seq, steps |-> <<>>],
                                      doc.pages[1].page_index),
                          doc.pages[Len(doc.pages)].page_index)}})

\* find_toc_lines from "if not candidates".
toc_lines_of(doc, cands, toc_page) ==
    The({expand_pages(doc, cands, p,
                      best_candidates_for_page_range(doc, cands, p, p)) :
         p \in {toc_page}})

\* find_toc_lines: the Lines returned or the exception, with the values of
\* toc_page, start_page, end_page and best_seq at the end of the loops.
find_toc_lines(doc, options) ==
    The({IF cands = <<>> THEN NoToc
         ELSE toc_lines_of(doc, cands, max_lis_page(doc, cands)) :
         cands \in {toc_candidates(doc, options)}})

(***************************************************************************)
(* filtertoc.main: load, find the lines of the table of contents, remove   *)
(* them unless more than 0.8 of them are prose, print.                     *)
(***************************************************************************)
MaxTocPages == 3

\* The lines of a page, in one block: two or three candidates, lines that
\* are no candidates before two candidates of prose, and two candidates far
\* apart.
TocPageTexts ==
    { <<"Methods 1", "Methods 1">>,
      <<"Methods 3", "Methods 3", "Methods 5">>,
      <<"Methods 4", "Methods 4", "Methods 4">>,
      <<"Introduction 2", "Methods 3", "Methods 3">>,
      <<"2 Introduction 3", "Methods 3", "Methods 4">>,
      <<"1 Scope 4", "Methods 4", "Methods 4">>,
      <<"x", "Methods-3", "see the methods on page 3", "see the methods on page 3">>,
      <<"Methods 3", "x", "x", "x", "x", "x", "x", "x", "x", "x", "Methods 3">> }

\* The page_index values of the pages in the order of the text: increasing,
\* and increasing with the last two exchanged.
PageOrders(n) ==
    { [i \in 1..n |-> i],
      [i \in 1..n |-> IF n > 1 /\ i = n - 1 THEN n
                      ELSE IF n > 1 /\ i = n THEN n - 1 ELSE i] }

TocLine(string, n, i) ==
    Content(n, <<FontF>>, <<0, 100 - 5 * i, 50, 105 - 5 * i>>, <<>>, 0, string)

\* The text of the pages from the k-th on, n lines before them.
RECURSIVE TocDocText(_, _, _, _)
TocDocText(texts, order, k, n) ==
    IF k > Len(texts) THEN <<>>
    ELSE LET recs == [i \in 1..Len(texts[k]) |-> TocLine(texts[k][i], n + i, i)]
         IN  <<Preamble("d", order[k], <<k>>, TightBox(recs), <<>>,
                        n + 1, n + Len(recs))>>
                 \o recs \o <<Blank>>
                 \o TocDocText(texts, order, k + 1, n + Len(recs))

TocTexts ==
    UNION {{TocDocText(texts, order, 1, 0) : order \in PageOrders(Len(texts))} :
           texts \in SeqsUpTo(TocPageTexts, MaxTocPages) \ {<<>>}}

\* The default 1/3 and the whole document.
RelativeTocLocations == {<<1, 3>>, <<1, 1>>}

InitToc ==
    /\ files \in {<<t>> : t \in TocTexts}
    /\ InitMain
    /\ args \in {[relative_toc_location |-> r] : r \in RelativeTocLocations}
    /\ InitRevise
    /\ InitPageNumbers
    /\ InitTools

\* len(prose_lines(lines))/len(lines) > 0.8
mostly_prose(lines) ==
    100 * Len(SelectSeq(lines, LAMBDA l : is_prose_line(TocText(l.text).chars)))
        > 80 * Len(lines)

\* lines = find_toc_lines(document, args), the test of the prose lines and
\* document.remove_lines(lines).
MainFilterToc ==
    /\ pc = "loaded"
    /\ \E r \in {find_toc_lines(document, args)} :
       LET ids == [l \in 1..Len(r.lines) |-> r.lines[l].id]
       IN  /\ candidates' = toc_candidates(document, args)
           /\ found' = [r EXCEPT !.lines = ids]
           /\ IF r.exc # "none"
              THEN /\ uncaught' = r.exc
                   /\ pc' = "crashed"
                   /\ UNCHANGED <<document, removed, log>>
              ELSE /\ pc' = "filtered"
                   /\ UNCHANGED uncaught
                   /\ IF r.lines # <<>> /\ mostly_prose(r.lines)
                      THEN /\ log' = Append(log, "rejecting prose block")
                           /\ UNCHANGED <<document, removed>>
                      ELSE LET d == Document_remove_lines(document, ids)
                           IN  /\ document' = d.obj
                               /\ removed' = d.removed
                               /\ UNCHANGED log
    /\ before' = document
    /\ UNCHANGED <<files, fn, stdout, reviseVars, toolVars>>

NextToc == MainLoad \/ MainFilterToc \/ PageFilterPrint \/ MainExit

SpecToc == InitToc /\ [][NextToc]_vars

(***************************************************************************)
(* Claims about filtertoc.find_toc_lines.  The claims are about the state  *)
(* after find_toc_lines: before is the document it was given, candidates   *)
(* its candidates and found its result.                                    *)
(***************************************************************************)
TocReturned == pc = "filtered" /\ found.best_seq # <<>>

\* The trimmed LIS of the candidates on the pages start_page..end_page.
TocBest(start_page, end_page) ==
    best_candidates_for_page_range(before, candidates, start_page, end_page)

FirstPage == before.pages[1].page_index

\* The sequence that was best_seq before the k-th step of the expansion.
BestBefore(k) ==
    IF found.steps[k].step = "left"
    THEN TocBest(found.steps[k].start_page + 1, found.steps[k].end_page)
    ELSE IF found.steps[k].step = "right"
    THEN TocBest(found.steps[k].start_page, found.steps[k].end_page - 1)
    ELSE TocBest(found.steps[k].start_page, found.steps[k].end_page)

\* C24: every page added to the range made the trimmed LIS at least 2
\* entries longer, and at the end one more page on the right, or on the
\* left unless the first page is reached or includes_toc_start holds, would
\* make it less than 2 entries longer.
C24_ExpansionStopsAtNoGrowth ==
    TocReturned =>
        /\ \A k \in 1..Len(found.steps) :
               found.steps[k].step \in {"left", "right"}
                   => found.steps[k].len >= found.steps[k].was + 2
        /\ Len(TocBest(found.start_page, found.end_page + 1))
               < Len(found.best_seq) + 2
        /\ \/ found.start_page <= FirstPage
           \/ includes_toc_start(found.best_seq)
           \/ Len(TocBest(found.start_page - 1, found.end_page))
                  < Len(found.best_seq) + 2

\* The sequences find_toc_lines may hold in best_seq: the trimmed LIS of
\* each range of pages.
RangeSequences ==
    LET indexes == {before.pages[p].page_index : p \in 1..Len(before.pages)}
    IN  UNION {{TocBest(s, e) : e \in {x \in indexes : x >= s}} : s \in indexes}
            \ {<<>>}

\* No step to the left was made from a sequence with the TOC start.
LeftStopsAtTocStart ==
    \A k \in 1..Len(found.steps) :
        found.steps[k].step = "left" => ~includes_toc_start(BestBefore(k))

\* C25: includes_toc_start is true for a sequence whose first candidate has
\* the number 1, or a text that starts with "1", or a text with a first
\* section word, whatever the text starts with; no step to the left is made
\* once it is true.
C25_TrueWhateverTheStart ==
    TocReturned =>
        /\ \A seq \in RangeSequences :
               (\/ seq[1].number = 1
                \/ TocText(seq[1].line.text).first = "1"
                \/ TocText(seq[1].line.text).section_word)
                   => includes_toc_start(seq)
        /\ LeftStopsAtTocStart

\* C25 amended: includes_toc_start is true exactly for a sequence whose
\* first candidate has the number 1, or a text that starts with "1", or a
\* text that starts with none of the digits 2 to 9 and has a first section
\* word; no step to the left is made once it is true.
C25_TrueUnlessStartsWithOtherDigit ==
    TocReturned =>
        /\ \A seq \in RangeSequences :
               includes_toc_start(seq) <=>
                   \/ seq[1].number = 1
                   \/ TocText(seq[1].line.text).first = "1"
                   \/ /\ TocText(seq[1].line.text).first
                             \notin {"2", "3", "4", "5", "6", "7", "8", "9"}
                      /\ TocText(seq[1].line.text).section_word
        /\ LeftStopsAtTocStart

\* The expansion to the left stopped at a sequence whose first text has a
\* section word, where the page before would have made the LIS 2 longer.
C25_Witness ==
    /\ TocReturned
    /\ \E k \in 1..Len(found.steps) :
           /\ found.steps[k].step = "toc start"
           /\ BestBefore(k)[1].number # 1
           /\ TocText(BestBefore(k)[1].line.text).first = "i"
           /\ TocText(BestBefore(k)[1].line.text).section_word
           /\ Len(TocBest(found.steps[k].start_page - 1, found.steps[k].end_page))
                  >= found.steps[k].was + 2

\* A step to the left was made from a sequence whose first text starts
\* with "2" and has a section word.
C25_WitnessOtherDigit ==
    /\ TocReturned
    /\ \E k \in 1..Len(found.steps) :
           /\ found.steps[k].step = "left"
           /\ TocText(BestBefore(k)[1].line.text).first = "2"
           /\ TocText(BestBefore(k)[1].line.text).section_word

\* The ids of the Lines of doc in the order of the document.
LinesInOrder(doc) ==
    LET all == Flatten([p \in 1..Len(doc.pages) |-> PageLines(doc.pages[p])])
    IN  [l \in 1..Len(all) |-> all[l].id]

\* C30: find_toc_lines raises for no document, whatever the order of its
\* pages: it returns no Line, or the Lines from the Line of the first
\* accepted candidate to the Line of the last one in the order of the
\* document.
C30_NeverRaisesInAnyPageOrder ==
    pc \in {"filtered", "crashed"} =>
        /\ uncaught = "none"
        /\ \/ found.lines = <<>>
           \/ \E i, j \in 1..Len(LinesInOrder(before)) :
                  /\ i <= j
                  /\ LinesInOrder(before)[i] = found.best_seq[1].line.id
                  /\ LinesInOrder(before)[j]
                         = found.best_seq[Len(found.best_seq)].line.id
                  /\ found.lines = SubSeq(LinesInOrder(before), i, j)

=============================================================================
